---- MODULE Spec2Model ----
(***************************************************************************)
(* A model of the chordsheet core (src/classes.py): the transposition      *)
(* engine Notes, the Lyric tokenizer and chordsheet renderer, Section      *)
(* wrapper resolution and slides, the Song render loops; and of the        *)
(* loader parse() (src/generate_music.py) that builds a Song from a file.  *)
(*                                                                         *)
(* Python strings are modelled as sequences of one-character strings, so   *)
(* that indexing, slicing and concatenation are what the code does.        *)
(***************************************************************************)
EXTENDS Integers, Sequences, FiniteSets, TLC

VARIABLES
    notes,      \* the Notes object: its tables and stored offset
    chord,      \* the Chord handed to Notes.transpose
    result,     \* what Notes.transpose (or Line.parse) returned or raised
    line,       \* the raw line handed to Lyric.parse or Line.parse
    lyric,      \* what Lyric.parse returned or raised, or its loop's locals
    scan,       \* the locals of Lyric.generate_chordsheet
    song,       \* the Song: sections, order, key
    call,       \* the locals of one Song.generate_chordsheet call
    section,    \* a Section and what its last method call returned or raised
    slides,     \* the locals of one Song.generate_slides call
    threads,    \* the render calls of concurrent callers, each with its locals
    loader      \* the locals of the loader's parse()

vars == <<notes, chord, result, line, lyric, scan, song, call,
          section, slides, threads, loader>>

-----------------------------------------------------------------------------
(* Bounds of the model *)

\* longest chord suffix (characters after the root letter) that is explored
MaxTail == 2

\* longest raw line handed to Lyric.parse, beside the example lines
MaxLine == 5

\* most Characters in a Lyric whose rendering is scanned
MaxChars == 53

\* most entries in a Song's performance order
MaxOrder == 3

-----------------------------------------------------------------------------
(* Strings *)

NoteLetters == {"A", "B", "C", "D", "E", "F", "G"}

Accidentals == {"#", "b"}

\* characters a chord symbol may carry after its root letter
TailChars == {"#", "b", "/", "m", "F", "B"}

RECURSIVE SeqsUpTo(_, _)
SeqsUpTo(S, n) ==
    IF n = 0 THEN {<<>>}
    ELSE LET shorter == SeqsUpTo(S, n - 1)
         IN  shorter \cup {Append(s, c) : s \in shorter, c \in S}

\* the chord symbols quoted in the documentation
ExampleChords == { <<"D", "/", "F", "#">>, <<"C", "m", "a", "j", "7">> }

\* chord symbols: a root letter followed by at most MaxTail further characters
Chords ==
    {<<r>> \o t : r \in NoteLetters, t \in SeqsUpTo(TailChars, MaxTail)} \cup ExampleChords

-----------------------------------------------------------------------------
(* Notes: the constant tables *)

notes_sharp ==
    << <<"C">>, <<"C", "#">>, <<"D">>, <<"D", "#">>, <<"E">>, <<"F">>,
       <<"F", "#">>, <<"G">>, <<"G", "#">>, <<"A">>, <<"A", "#">>, <<"B">> >>

\* the flat table spelling its last entry B
notes_flat_B ==
    << <<"C">>, <<"D", "b">>, <<"D">>, <<"E", "b">>, <<"E">>, <<"F">>,
       <<"G", "b">>, <<"G">>, <<"A", "b">>, <<"A">>, <<"B", "b">>, <<"B">> >>

notes_flat ==
    << <<"C">>, <<"D", "b">>, <<"D">>, <<"E", "b">>, <<"E">>, <<"F">>,
       <<"G", "b">>, <<"G">>, <<"A", "b">>, <<"A">>, <<"B", "b">>, <<"C", "b">> >>

sharp_keys ==
    { <<"C">>, <<"G">>, <<"D">>, <<"A">>, <<"E">>, <<"B">>, <<"F", "#">>,
      <<"C", "#">>, <<"G", "#">>, <<"D", "#">>, <<"A", "#">> }

flat_keys ==
    { <<"F">>, <<"B", "b">>, <<"E", "b">>, <<"A", "b">>, <<"D", "b">>, <<"G", "b">> }

\* key names a caller may pass: every key of the two sets and some of neither
KeyInputs ==
    { <<"C">>, <<"G">>, <<"D">>, <<"A">>, <<"E">>, <<"B">>, <<"F", "#">>,
      <<"C", "#">>, <<"G", "#">>, <<"D", "#">>, <<"A", "#">>,
      <<"F">>, <<"B", "b">>, <<"E", "b">>, <<"A", "b">>, <<"D", "b">>, <<"G", "b">>,
      <<"C", "b">>, <<"E", "#">>, <<"H">> }

is_sharp_key(key) == key \in sharp_keys

\* the flat test reading the sharp set
is_flat_key_sharp(key) == key \in sharp_keys

is_flat_key(key) == key \in flat_keys

\* list.index: the 0-based position of the first equal entry, -1 for ValueError
IndexOf(table, x) ==
    IF \E i \in 1..Len(table) : table[i] = x
    THEN (CHOOSE i \in 1..Len(table) :
              table[i] = x /\ \A j \in 1..(i - 1) : table[j] # x) - 1
    ELSE -1

-----------------------------------------------------------------------------
(* Notes: construction *)

NoNotes ==
    [state |-> "none", err |-> "", input_key |-> <<>>, output_key |-> <<>>,
     input_notes |-> <<>>, output_notes |-> <<>>, semitones_up |-> 0]

\* the offset taken from the new key down to the old one
get_semitones_up_swapped(input_notes, output_notes, old_key, new_key) ==
    (IndexOf(input_notes, old_key) - IndexOf(output_notes, new_key)) % Len(output_notes)

get_semitones_up(input_notes, output_notes, old_key, new_key) ==
    (IndexOf(output_notes, new_key) - IndexOf(input_notes, old_key)) % Len(output_notes)

\* Notes.__init__: the object built, or the ValueError raised
NotesNew(input_key, output_key) ==
    LET base == [NoNotes EXCEPT !.input_key = input_key, !.output_key = output_key]
        supported(k) == is_sharp_key(k) \/ is_flat_key(k)
        tableOf(k) == IF is_sharp_key(k) THEN notes_sharp ELSE notes_flat
    IN  IF ~supported(input_key)
        THEN [base EXCEPT !.state = "error", !.err = "unsupported input key"]
        ELSE IF ~supported(output_key)
        THEN [base EXCEPT !.state = "error", !.err = "unsupported output key",
                          !.input_notes = tableOf(input_key)]
        ELSE LET inT == tableOf(input_key)
                 outT == tableOf(output_key)
             IN  IF IndexOf(outT, output_key) = -1 \/ IndexOf(inT, input_key) = -1
                 THEN [base EXCEPT !.state = "error", !.err = "key not in its table",
                                   !.input_notes = inT, !.output_notes = outT]
                 ELSE [base EXCEPT !.state = "ok", !.input_notes = inT,
                                   !.output_notes = outT,
                                   !.semitones_up =
                                       get_semitones_up(inT, outT, input_key, output_key)]

-----------------------------------------------------------------------------
(* Notes: transposition *)

Raised == [ok |-> FALSE, val |-> <<>>]

Returned(s) == [ok |-> TRUE, val |-> s]

\* Notes.__transpose: one note token through the tables
transpose_note(n, note) ==
    LET index == IndexOf(n.input_notes, note)
    IN  IF index = -1 THEN Raised
        ELSE Returned(n.output_notes[((index + n.semitones_up) % Len(n.output_notes)) + 1])

RECURSIVE TransposeFrom(_, _, _, _)
\* the while loop of Notes.transpose from position i (1-based) with new_chord so far
TransposeFrom(n, c, i, new_chord) ==
    IF i > Len(c) THEN Returned(new_chord)
    ELSE IF c[i] \in NoteLetters
    THEN IF i + 1 <= Len(c) /\ c[i + 1] \in Accidentals
         THEN LET t == transpose_note(n, <<c[i], c[i + 1]>>)
              IN  IF ~t.ok THEN Raised
                  ELSE TransposeFrom(n, c, i + 2, new_chord \o t.val)
         ELSE LET t == transpose_note(n, <<c[i]>>)
              IN  IF ~t.ok THEN Raised
                  ELSE TransposeFrom(n, c, i + 1, new_chord \o t.val)
    ELSE TransposeFrom(n, c, i + 1, Append(new_chord, c[i]))

\* the root token the loop consumes first: one letter, or a letter and its accidental
RootLen(c) == IF Len(c) >= 2 /\ c[2] \in Accidentals THEN 2 ELSE 1

\* a transpose that transposes the leading root token and copies the rest
transpose_leading_only(n, c) ==
    LET k == RootLen(c)
        t == transpose_note(n, SubSeq(c, 1, k))
    IN  IF ~t.ok THEN Raised ELSE Returned(t.val \o SubSeq(c, k + 1, Len(c)))

\* Notes.transpose
transpose(n, c) == TransposeFrom(n, c, 1, <<>>)

NoResult == [state |-> "none", val |-> <<>>]

-----------------------------------------------------------------------------
(* Lyric.parse *)

\* characters str.rstrip() removes
Whitespace == {" ", "\n", "\t"}

\* characters of the raw lines that are explored
LineChars == {"[", "]", "a", "G", " ", "\n"}

\* the lines quoted in the documentation
ExampleLines ==
    { <<"[", "C", "]", "H", "e", "l", "l", "o", " ", "[", "G", "]", "w", "o", "r", "l", "d">>,
      <<"e", "n", "d", "[", "C", "]">>,
      <<"[", "C", "]", "H", "e", "l", "l", "o", " ", "[", "G", "]", "w", "o", "r", "l", "d", "\n">> }

Lines == SeqsUpTo(LineChars, MaxLine) \cup ExampleLines

RECURSIVE rstrip_newline(_)
\* the string without its trailing line terminators
rstrip_newline(s) ==
    IF Len(s) > 0 /\ s[Len(s)] = "\n" THEN rstrip_newline(SubSeq(s, 1, Len(s) - 1)) ELSE s

RECURSIVE rstrip(_)
\* str.rstrip(): the string without its trailing whitespace
rstrip(s) ==
    IF Len(s) > 0 /\ s[Len(s)] \in Whitespace THEN rstrip(SubSeq(s, 1, Len(s) - 1)) ELSE s

\* Character(c) and Character(c, Chord(x)); c is a string of length 0 or 1
PlainCharacter(c) == [char |-> c, has_chord |-> FALSE, chord |-> <<>>]

ChordCharacter(c, x) == [char |-> c, has_chord |-> TRUE, chord |-> x]

\* a search for the closing bracket that takes the end of the line for one
ChordEndLenient(s, i) ==
    IF \E j \in i..Len(s) : s[j] = "]"
    THEN CHOOSE j \in i..Len(s) : s[j] = "]" /\ \A k \in i..(j - 1) : s[k] # "]"
    ELSE Len(s) + 1

\* the inner while loop: the position of the first "]" at or after i, 0 when
\* the end of the line is reached first (ValueError)
ChordEnd(s, i) ==
    IF \E j \in i..Len(s) : s[j] = "]"
    THEN CHOOSE j \in i..Len(s) : s[j] = "]" /\ \A k \in i..(j - 1) : s[k] # "]"
    ELSE 0

\* a glyph choice that does not look for a new chord
GlyphAfterAny(s, after) == IF after > Len(s) THEN <<>> ELSE <<s[after]>>

\* the glyph of a chord whose "]" is at after - 1: none at the end of the line
\* or before another "[", else the next character
GlyphAfter(s, after) == IF after > Len(s) \/ s[after] = "[" THEN <<>> ELSE <<s[after]>>

\* one iteration of the outer while loop of Lyric.parse at position i
\* (1-based): the position after it and the Character appended, or the
\* ValueError of a chord that is not closed
ParseStep(s, i) ==
    IF s[i] = "["
    THEN LET start_chord == i + 1
             end_chord == ChordEnd(s, i)
             x == SubSeq(s, start_chord, end_chord - 1)
             glyph == GlyphAfter(s, end_chord + 1)
         IN  IF end_chord = 0
             THEN [ok |-> FALSE, i |-> i, token |-> PlainCharacter(<<>>)]
             ELSE [ok |-> TRUE, i |-> end_chord + 1 + Len(glyph),
                   token |-> ChordCharacter(glyph, x)]
    ELSE [ok |-> TRUE, i |-> i + 1, token |-> PlainCharacter(<<s[i]>>)]

RECURSIVE ParseFrom(_, _, _)
\* the outer while loop of Lyric.parse at position i (1-based) with line_tokens so far
ParseFrom(s, i, line_tokens) ==
    IF i > Len(s) THEN [state |-> "ok", characters |-> line_tokens]
    ELSE LET r == ParseStep(s, i)
         IN  IF ~r.ok THEN [state |-> "error", characters |-> <<>>]
             ELSE ParseFrom(s, r.i, Append(line_tokens, r.token))

\* Lyric.parse
LyricParse(raw) == ParseFrom(rstrip(raw), 1, <<>>)

\* a string form that leaves the chord out
CharacterStrBare(c) == c.char

\* Character.__str__
CharacterStr(c) == IF c.has_chord THEN <<"[">> \o c.chord \o <<"]">> \o c.char ELSE c.char

RECURSIVE LyricStrFrom(_, _)
LyricStrFrom(cs, i) == IF i > Len(cs) THEN <<>> ELSE CharacterStr(cs[i]) \o LyricStrFrom(cs, i + 1)

\* Lyric.__str__
LyricStr(cs) == LyricStrFrom(cs, 1)

-----------------------------------------------------------------------------
(* Rendering of chords and Characters *)

\* str(n) of a natural number
Digits == <<"0", "1", "2", "3", "4", "5", "6", "7", "8", "9">>

RECURSIVE Str(_)
Str(n) == IF n < 10 THEN <<Digits[n + 1]>> ELSE Str(n \div 10) \o <<Digits[(n % 10) + 1]>>

RECURSIVE ConvertFrom(_, _)
ConvertFrom(c, i) ==
    IF i > Len(c) THEN <<>>
    ELSE (IF c[i] # "#" THEN <<c[i]>> ELSE <<"\\", "s", " ">>) \o ConvertFrom(c, i + 1)

\* Chord.convert: "#" becomes "\s "
convert(c) == ConvertFrom(c, 1)

\* Chord.generate_chordsheet
ChordChordsheet(n, x) ==
    LET t == transpose(n, x)
    IN  IF ~t.ok THEN Raised ELSE Returned(<<"\\", "c", "{">> \o convert(t.val) \o <<"}">>)

\* Character.generate_chordsheet
CharacterChordsheet(n, c) ==
    IF ~c.has_chord THEN Returned(c.char)
    ELSE LET r == ChordChordsheet(n, c.chord)
         IN  IF ~r.ok THEN Raised ELSE Returned(r.val \o c.char)

-----------------------------------------------------------------------------
(* Lyric.generate_chordsheet *)

MAX_LENGTH == 52

\* the fit test written with >=
exceeds_max_length_ge(total_len) == total_len >= MAX_LENGTH

\* the fit test: total_len > Line.MAX_LENGTH
exceeds_max_length(total_len) == total_len > MAX_LENGTH

Max(a, b) == IF a >= b THEN a ELSE b

\* the locals before the loop; len_last_chord = -1 stands for None
ScanStart == [characters_since_chord |-> 0, len_last_chord |-> -1, total_len |-> 0]

\* the spacing directive "\spv{k}"
Spv(k) == <<"\\", "s", "p", "v", "{">> \o Str(k) \o <<"}">>

\* the spacing test written with <
spacing_due_lt(st) ==
    st.len_last_chord # -1 /\ st.characters_since_chord < st.len_last_chord

\* the spacing test at a Character with a chord:
\* len_last_chord is not None and characters_since_chord <= len_last_chord
spacing_due(st) ==
    st.len_last_chord # -1 /\ st.characters_since_chord <= st.len_last_chord

\* one iteration of the loop over self.characters: the locals after it and the
\* text appended to output, or the ValueError of the transposition
ScanStep(n, st, c) ==
    LET gap == c.has_chord /\ spacing_due(st)
        amount == st.len_last_chord - st.characters_since_chord + 1
        t == transpose(n, c.chord)
        text == CharacterChordsheet(n, c)
    IN  IF c.has_chord /\ ~t.ok
        THEN [ok |-> FALSE, st |-> st, piece |-> <<>>]
        ELSE [ok |-> TRUE,
              st |-> [characters_since_chord |->
                          (IF c.has_chord THEN 0 ELSE st.characters_since_chord) + 1,
                      len_last_chord |->
                          IF c.has_chord THEN Len(t.val) ELSE st.len_last_chord,
                      total_len |-> st.total_len + (IF gap THEN amount ELSE 0) + 1],
              piece |-> (IF gap THEN Spv(amount) ELSE <<>>) \o text.val]

\* the update after the loop
FinalTotalLen(st) ==
    IF st.len_last_chord # -1
    THEN st.total_len + Max(0, st.len_last_chord - st.characters_since_chord)
    ELSE st.total_len

RECURSIVE LyricScanFrom(_, _, _, _, _)
LyricScanFrom(n, cs, i, st, output) ==
    IF i > Len(cs)
    THEN IF exceeds_max_length(FinalTotalLen(st))
         THEN Returned(<<"\\", "f", "i", "t", "{">> \o output \o <<"}">>)
         ELSE Returned(output)
    ELSE LET r == ScanStep(n, st, cs[i])
         IN  IF ~r.ok THEN Raised
             ELSE LyricScanFrom(n, cs, i + 1, r.st, output \o r.piece)

\* Lyric.generate_chordsheet
LyricChordsheet(n, cs) == LyricScanFrom(n, cs, 1, ScanStart, <<>>)

-----------------------------------------------------------------------------
(* Section: wrapper resolution and index *)

Letters ==
    {"a", "b", "c", "d", "e", "f", "g", "h", "i", "j", "k", "l", "m", "n", "o", "p", "q", "r", "s", "t", "u", "v", "w", "x", "y", "z",
     "A", "B", "C", "D", "E", "F", "G", "H", "I", "J", "K", "L", "M", "N", "O", "P", "Q", "R", "S", "T", "U", "V", "W", "X", "Y", "Z"}

IsDigit(c) == \E d \in 1..10 : Digits[d] = c

DigitValue(c) == (CHOOSE d \in 1..10 : Digits[d] = c) - 1

\* the text a pattern ending in "$" has to cover: "$" matches at the end of
\* the string and also just before one trailing newline
DollarTexts(name) ==
    {name} \cup (IF Len(name) > 0 /\ name[Len(name)] = "\n"
                 THEN {SubSeq(name, 1, Len(name) - 1)} ELSE {})

\* the fixed, ordered table of get_wrapper: the names of each pattern, whether
\* it takes "( \d)?", and the markers it returns
Archetypes ==
    << [names |-> {<<"I", "n", "t", "r", "o">>}, digit |-> FALSE,
        begin |-> <<"\\", "b", "i">>, end |-> <<"\\", "e", "i">>, repeat |-> <<"\\", "r", "i">>],
       [names |-> {<<"V", "e", "r", "s", "e">>}, digit |-> TRUE,
        begin |-> <<"\\", "b", "v">>, end |-> <<"\\", "e", "v">>, repeat |-> <<"\\", "r", "v">>],
       [names |-> {<<"P", "r", "e", "c", "h", "o", "r", "u", "s">>, <<"P", "r", "e", "-", "c", "h", "o", "r", "u", "s">>, <<"P", "r", "e", "-", "C", "h", "o", "r", "u", "s">>}, digit |-> TRUE,
        begin |-> <<"\\", "b", "p">>, end |-> <<"\\", "e", "p">>, repeat |-> <<"\\", "r", "p">>],
       [names |-> {<<"C", "h", "o", "r", "u", "s">>}, digit |-> TRUE,
        begin |-> <<"\\", "b", "c">>, end |-> <<"\\", "e", "c">>, repeat |-> <<"\\", "r", "c">>],
       [names |-> {<<"B", "r", "e", "a", "k">>, <<"I", "n", "s", "t", "r", "u", "m", "e", "n", "t", "a", "l">>}, digit |-> TRUE,
        begin |-> <<"\\", "b", "i", "n">>, end |-> <<"\\", "e", "i", "n">>, repeat |-> <<"\\", "r", "i", "n">>],
       [names |-> {<<"B", "r", "i", "d", "g", "e">>}, digit |-> TRUE,
        begin |-> <<"\\", "b", "b">>, end |-> <<"\\", "e", "b">>, repeat |-> <<"\\", "r", "b">>],
       [names |-> {<<"O", "u", "t", "r", "o">>}, digit |-> FALSE,
        begin |-> <<"\\", "b", "o">>, end |-> <<"\\", "e", "o">>, repeat |-> <<"\\", "r", "o">>],
       [names |-> {<<"T", "a", "g">>}, digit |-> TRUE,
        begin |-> <<"\\", "b", "t">>, end |-> <<"\\", "e", "t">>, repeat |-> <<"\\", "r", "t">>] >>

\* re.match("^(names)( \d)?$", name), or "^(names)$" when digit is FALSE
MatchesArchetype(a, name) ==
    \E t \in DollarTexts(name) :
        \E p \in a.names :
            \/ t = p
            \/ /\ a.digit
               /\ Len(t) = Len(p) + 2
               /\ SubSeq(t, 1, Len(p)) = p
               /\ t[Len(p) + 1] = " "
               /\ IsDigit(t[Len(p) + 2])

\* the first branch of the if/elif chain that matches, 0 when none does
ArchetypeOf(name) ==
    IF \E k \in 1..Len(Archetypes) : MatchesArchetype(Archetypes[k], name)
    THEN CHOOSE k \in 1..Len(Archetypes) :
             /\ MatchesArchetype(Archetypes[k], name)
             /\ \A j \in 1..(k - 1) : ~MatchesArchetype(Archetypes[j], name)
    ELSE 0

\* Section.get_wrapper: the begin/end pair or the repeat marker, or ValueError
get_wrapper(name, repeat) ==
    LET k == ArchetypeOf(name)
    IN  IF k = 0 THEN [ok |-> FALSE, begin |-> <<>>, end |-> <<>>, macro |-> <<>>]
        ELSE IF ~repeat
        THEN [ok |-> TRUE, begin |-> Archetypes[k].begin, end |-> Archetypes[k].end,
              macro |-> <<>>]
        ELSE [ok |-> TRUE, begin |-> <<>>, end |-> <<>>, macro |-> Archetypes[k].repeat]

\* an index that ignores the name
get_index_one(name) == 1

\* Section.get_index: re.match("^([a-zA-Z]+) (\d)$", name)
get_index(name) ==
    LET fits(t) == /\ Len(t) >= 3
                   /\ IsDigit(t[Len(t)])
                   /\ t[Len(t) - 1] = " "
                   /\ \A j \in 1..(Len(t) - 2) : t[j] \in Letters
    IN  IF \E t \in DollarTexts(name) : fits(t)
        THEN LET t == CHOOSE t \in DollarTexts(name) : fits(t) IN DigitValue(t[Len(t)])
        ELSE 1

-----------------------------------------------------------------------------
(* Lines and their chordsheet rendering *)

MusicLine(measures) == [kind |-> "music", measures |-> measures, characters |-> <<>>]

BreakLine == [kind |-> "break", measures |-> <<>>, characters |-> <<>>]

Lyric(characters) == [kind |-> "lyric", measures |-> <<>>, characters |-> characters]

RECURSIVE JoinFrom(_, _, _)
JoinFrom(parts, sep, i) ==
    IF i > Len(parts) THEN <<>>
    ELSE IF i = Len(parts) THEN parts[i]
    ELSE parts[i] \o sep \o JoinFrom(parts, sep, i + 1)

\* sep.join(parts)
Join(parts, sep) == JoinFrom(parts, sep, 1)

\* every part returned; a generator raises as soon as one part raises
AllOk(rs) == \A i \in 1..Len(rs) : rs[i].ok

Vals(rs) == [i \in 1..Len(rs) |-> rs[i].val]

\* MusicLine.generate_chordsheet
MusicLineChordsheet(n, measures) ==
    LET chordText(x) == LET t == transpose(n, x)
                        IN  IF t.ok THEN Returned(convert(t.val)) ELSE Raised
        measure(m) == LET rs == [i \in 1..Len(m) |-> chordText(m[i])]
                      IN  IF AllOk(rs) THEN Returned(Join(Vals(rs), <<" ">>)) ELSE Raised
        ms == [i \in 1..Len(measures) |-> measure(measures[i])]
    IN  IF AllOk(ms)
        THEN Returned(<<"|", " ">> \o Join(Vals(ms), <<" ", "|", " ">>) \o <<" ", "|">>)
        ELSE Raised

\* Line.generate_chordsheet, by the class of the line
LineChordsheet(n, l) ==
    IF l.kind = "music" THEN MusicLineChordsheet(n, l.measures)
    ELSE IF l.kind = "break" THEN Returned(<<>>)
    ELSE LyricChordsheet(n, l.characters)

\* a repeat reference that writes the index before the frequency
RepeatReferenceSwapped(macro, index, frequency) ==
    IF frequency > 1
    THEN macro \o <<"[">> \o Str(index) \o <<"]", "{">> \o Str(frequency) \o <<"}">>
    ELSE macro \o <<"{">> \o Str(index) \o <<"}">>

\* the two format strings of the repeated branch: "{0}[{2}]{{{1}}}" and "{0}{{{1}}}"
RepeatReference(macro, index, frequency) ==
    IF frequency > 1
    THEN macro \o <<"[">> \o Str(frequency) \o <<"]", "{">> \o Str(index) \o <<"}">>
    ELSE macro \o <<"{">> \o Str(index) \o <<"}">>

\* Section.generate_chordsheet
SectionChordsheet(sec, n, frequency, repeated_section) ==
    LET w == get_wrapper(sec.name, repeated_section)
        rs == [i \in 1..Len(sec.lines) |-> LineChordsheet(n, sec.lines[i])]
        begin == IF frequency > 1 THEN w.begin \o <<"[">> \o Str(frequency) \o <<"]">>
                 ELSE w.begin
    IN  IF ~w.ok THEN Raised
        ELSE IF ~repeated_section
        THEN IF ~AllOk(rs) THEN Raised
             ELSE Returned(begin \o <<"\n">> \o Join(Vals(rs), <<"\n", "\n">>)
                               \o <<"\n">> \o w.end)
        ELSE Returned(RepeatReference(w.macro, get_index(sec.name), frequency))

-----------------------------------------------------------------------------
(* Slides of a Section *)

\* Line.has_lyrics: True for a Lyric, False for a MusicLine and a BreakLine
LineHasLyrics(l) == l.kind = "lyric"

RECURSIVE CharsFrom(_, _)
CharsFrom(cs, i) == IF i > Len(cs) THEN <<>> ELSE cs[i].char \o CharsFrom(cs, i + 1)

\* Line.get_lyrics: the characters of a Lyric without chords, "" otherwise
LineGetLyrics(l) == IF l.kind = "lyric" THEN CharsFrom(l.characters, 1) ELSE <<>>

\* a test for break lines that finds none
LineIsBreakNever(l) == FALSE

\* Line.is_break
LineIsBreak(l) == l.kind = "break"

\* an answer that only asks whether the section has lines
has_lyrics_any_line(lines) == Len(lines) > 0

\* Section.has_lyrics
has_lyrics(lines) == \E i \in 1..Len(lines) : LineHasLyrics(lines[i])

\* create_slide of Section.generate_slides: one frame, "" for no lines
create_slide(lines, is_first_slide) ==
    IF Len(lines) > 0
    THEN <<"\\", "b", "e", "g", "i", "n", "{", "f", "r", "a", "m", "e", "}", "\n",
           "\\", "h", "e", "a", "d", "e", "r", "\n",
           "\\", "b", "e", "g", "i", "n", "{", "c", "e", "n", "t", "e", "r", "}", "\n">>
         \o Join([k \in 1..Len(lines) |-> LineGetLyrics(lines[k])], <<"\n", "\n">>)
         \o <<"\n", "\\", "e", "n", "d", "{", "c", "e", "n", "t", "e", "r", "}", "\n">>
         \o (IF is_first_slide THEN <<"\\", "c", "i", "t", "e", "\n">> ELSE <<>>)
         \o <<"\\", "e", "n", "d", "{", "f", "r", "a", "m", "e", "}">>
    ELSE <<>>

RECURSIVE CollectSlides(_, _, _, _, _)
\* the loop over self.lines and the create_slide after it; frames records
\* each non-empty string create_slide returned, in order
CollectSlides(lines, i, lines_per_slide, acc, is_first_slide) ==
    IF i > Len(lines)
    THEN LET s == create_slide(lines_per_slide, is_first_slide)
         IN  [output |-> acc.output \o s,
              frames |-> IF s = <<>> THEN acc.frames ELSE Append(acc.frames, s)]
    ELSE IF ~LineIsBreak(lines[i])
    THEN CollectSlides(lines, i + 1, Append(lines_per_slide, lines[i]), acc, is_first_slide)
    ELSE LET s == create_slide(lines_per_slide, is_first_slide)
         IN  CollectSlides(lines, i + 1, <<>>,
                           [output |-> acc.output \o s,
                            frames |-> IF s = <<>> THEN acc.frames
                                       ELSE Append(acc.frames, s)],
                           is_first_slide)

\* Section.generate_slides: RuntimeError for a section without lyrics
SectionSlides(lines, is_first_slide) ==
    IF ~has_lyrics(lines)
    THEN [ok |-> FALSE, val |-> <<>>, frames |-> <<>>]
    ELSE LET r == CollectSlides(lines, 1, <<>>, [output |-> <<>>, frames |-> <<>>],
                                is_first_slide)
         IN  [ok |-> TRUE, val |-> r.output, frames |-> r.frames]

-----------------------------------------------------------------------------
(* Line.parse: the kind of a raw line, and MusicLine.parse *)

RECURSIVE SplitFrom(_, _, _, _)
SplitFrom(s, sep, i, cur) ==
    IF i > Len(s) THEN <<cur>>
    ELSE IF s[i] = sep THEN <<cur>> \o SplitFrom(s, sep, i + 1, <<>>)
    ELSE SplitFrom(s, sep, i + 1, Append(cur, s[i]))

\* s.split(sep) for a one-character separator
Split(s, sep) == SplitFrom(s, sep, 1, <<>>)

RECURSIVE lstrip(_)
lstrip(s) == IF Len(s) > 0 /\ s[1] \in Whitespace THEN lstrip(Tail(s)) ELSE s

\* s.strip()
strip(s) == lstrip(rstrip(s))

LowerLetters ==
    {"a", "b", "c", "d", "e", "f", "g", "h", "i", "j", "k", "l", "m",
     "n", "o", "p", "q", "r", "s", "t", "u", "v", "w", "x", "y", "z"}

\* the class [A-Ga-z0-9#/ ] of the measures of a music line
MeasureChars ==
    NoteLetters \cup LowerLetters \cup {Digits[d] : d \in 1..10} \cup {"#", "/", " "}

\* t ends with " (x<digits>)": where that suffix starts, 0 when it does not
RepeatSuffixStart(t) ==
    IF \E j \in 1..Len(t) :
           /\ Len(t) - j >= 4
           /\ SubSeq(t, j, j + 2) = <<" ", "(", "x">>
           /\ t[Len(t)] = ")"
           /\ \A k \in (j + 3)..(Len(t) - 1) : IsDigit(t[k])
    THEN CHOOSE j \in 1..Len(t) :
           /\ Len(t) - j >= 4
           /\ SubSeq(t, j, j + 2) = <<" ", "(", "x">>
           /\ t[Len(t)] = ")"
           /\ \A k \in (j + 3)..(Len(t) - 1) : IsDigit(t[k])
    ELSE 0

\* "[A-Ga-z0-9#/ ]+:?" covers the whole of seg
MeasureSegment(seg) ==
    LET body == IF Len(seg) > 0 /\ seg[Len(seg)] = ":"
                THEN SubSeq(seg, 1, Len(seg) - 1) ELSE seg
    IN  /\ Len(body) > 0
        /\ \A k \in 1..Len(body) : body[k] \in MeasureChars

\* "\|:?([A-Ga-z0-9#/ ]+:?\|)+" covers the whole of b
BarsMatch(b) ==
    /\ Len(b) >= 1
    /\ b[1] = "|"
    /\ LET after == SubSeq(b, 2, Len(b))
           r == IF Len(after) > 0 /\ after[1] = ":" THEN Tail(after) ELSE after
           segs == Split(r, "|")
       IN  /\ Len(segs) >= 2
           /\ segs[Len(segs)] = <<>>
           /\ \A k \in 1..(Len(segs) - 1) : MeasureSegment(segs[k])

\* MusicLine.is_music_line
is_music_line(l) ==
    \E t \in DollarTexts(l) :
        \/ BarsMatch(t)
        \/ /\ RepeatSuffixStart(t) > 0
           /\ BarsMatch(SubSeq(t, 1, RepeatSuffixStart(t) - 1))

\* BreakLine.is_break_line: re.match("(-)*$", line)
is_break_line(l) == \E t \in DollarTexts(l) : \A k \in 1..Len(t) : t[k] = "-"

RECURSIVE MeasuresFrom(_, _)
\* the loop of MusicLine.parse over line.split("|")[1:]
MeasuresFrom(line_split, k) ==
    IF k > Len(line_split) THEN <<>>
    ELSE LET m == line_split[k]
         IN  IF m = <<"\n">> THEN MeasuresFrom(line_split, k + 1)
             ELSE IF \E j \in 1..Len(m) : m[j] = "/"
             THEN <<Split(m, " ")>> \o MeasuresFrom(line_split, k + 1)
             ELSE << <<strip(m)>> >> \o MeasuresFrom(line_split, k + 1)

\* MusicLine.parse
MusicLineParse(l) == MusicLine(MeasuresFrom(Split(l, "|"), 2))

\* Line.parse: the Line, or the error Lyric.parse raises
LineParse(l) ==
    IF is_music_line(l) THEN [ok |-> TRUE, line |-> MusicLineParse(l)]
    ELSE IF is_break_line(l) THEN [ok |-> TRUE, line |-> BreakLine]
    ELSE LET r == LyricParse(l)
         IN  [ok |-> r.state = "ok", line |-> Lyric(r.characters)]

-----------------------------------------------------------------------------
(* Idle values of the parts a specification does not exercise *)

NoLine == <<>>

NoLyric == [state |-> "none", characters |-> <<>>]

NoScan ==
    [pc |-> "idle", fed |-> 0, spacing |-> 0, last_chord |-> <<>>, last_empty |-> FALSE,
     st |-> ScanStart, total_len |-> 0, wrapped |-> FALSE,
     c |-> PlainCharacter(<<>>), piece |-> <<>>]

NoSong == [sections |-> <<>>, order |-> <<>>, key |-> <<>>]

NoCall ==
    [pc |-> "idle", new_key |-> <<>>, i |-> 1, generated_sections |-> {},
     output |-> <<>>, blocks |-> <<>>, returned |-> <<>>]

NoSection ==
    [name |-> <<>>, lines |-> <<>>, op |-> "none", arg |-> FALSE,
     wrapper |-> [ok |-> FALSE, begin |-> <<>>, end |-> <<>>, macro |-> <<>>],
     has_lyrics |-> FALSE,
     slides |-> [ok |-> FALSE, val |-> <<>>, frames |-> <<>>]]

NoSlides ==
    [pc |-> "idle", repeat |-> FALSE, i |-> 1, generated_sections |-> {},
     first_slide |-> TRUE, output |-> <<>>, rendered |-> <<>>, returned |-> <<>>]

NoThreads == <<>>

NoLoader == [pc |-> "idle"]

\* the parts only the later specifications exercise are idle
OthersIdle ==
    /\ section = NoSection
    /\ slides = NoSlides
    /\ threads = NoThreads
    /\ loader = NoLoader

-----------------------------------------------------------------------------
(* Specification of the transposition engine *)

NotesIdle == <<line, lyric, scan, song, call, section, slides, threads, loader>>

InitNotes ==
    /\ notes = NoNotes
    /\ chord = <<>>
    /\ result = NoResult
    /\ line = NoLine
    /\ lyric = NoLyric
    /\ scan = NoScan
    /\ song = NoSong
    /\ call = NoCall
    /\ OthersIdle

\* notes = Notes(input_key, output_key)
Construct ==
    /\ notes.state = "none"
    /\ \E ik \in KeyInputs, ok \in KeyInputs : notes' = NotesNew(ik, ok)
    /\ UNCHANGED <<chord, result>>
    /\ UNCHANGED NotesIdle

\* notes.transpose(Chord(c))
Transpose ==
    /\ notes.state = "ok"
    /\ result.state = "none"
    /\ \E c \in Chords :
          /\ chord' = c
          /\ LET r == transpose(notes, c)
             IN  result' = [state |-> IF r.ok THEN "ok" ELSE "error", val |-> r.val]
    /\ UNCHANGED notes
    /\ UNCHANGED NotesIdle

NextNotes == Construct \/ Transpose

SpecNotes == InitNotes /\ [][NextNotes]_vars

-----------------------------------------------------------------------------
(* Properties of the transposition engine, checked under SpecNotes *)

Transposed == notes.state = "ok" /\ result.state # "none"

\* C1: transposing from a key to itself is the identity: for every supported
\* key k and every chord symbol c (root letter, optional accidental, any
\* suffix), Notes(k, k).transpose(c) returns c unchanged.
C1_SameKeyIdentity ==
    (Transposed /\ notes.input_key = notes.output_key)
        => (result.state = "ok" /\ result.val = chord)

FSharpFromCToF ==
    /\ Transposed
    /\ notes.input_key = <<"C">>
    /\ notes.output_key = <<"F">>
    /\ chord = <<"F", "#">>

\* C2 as stated: chord F# from key C to key F returns A#.
C2_FSharpGivesASharp ==
    FSharpFromCToF => (result.state = "ok" /\ result.val = <<"A", "#">>)

\* C2: chord F# from key C to key F is read in the sharp table, moved up 5
\* semitones and spelled by the flat table selected for F: it returns Cb.
C2_FSharpGivesCFlat ==
    FSharpFromCToF =>
        /\ notes.input_notes = notes_sharp
        /\ notes.output_notes = notes_flat
        /\ notes.semitones_up = 5
        /\ result.state = "ok"
        /\ result.val = <<"C", "b">>

C2_Witness == FSharpFromCToF /\ result.val = <<"C", "b">>

ConsumedAccidental(c, i) == i > 1 /\ c[i] \in Accidentals /\ c[i - 1] \in NoteLetters

\* what position i of chord c contributes to the result
Piece(n, c, i) ==
    IF c[i] \in NoteLetters
    THEN LET tok == IF i < Len(c) /\ c[i + 1] \in Accidentals
                    THEN <<c[i], c[i + 1]>> ELSE <<c[i]>>
         IN  n.output_notes[((IndexOf(n.input_notes, tok) + n.semitones_up) % 12) + 1]
    ELSE IF ConsumedAccidental(c, i) THEN <<>>
    ELSE <<c[i]>>

RECURSIVE Pieces(_, _, _)
Pieces(n, c, i) == IF i > Len(c) THEN <<>> ELSE Piece(n, c, i) \o Pieces(n, c, i + 1)

Supported(k) == k \in sharp_keys \/ k \in flat_keys

\* C5: Notes(inputKey, outputKey) fails with an unsupported-key error exactly
\* when one of the keys is in neither key set; for every pair of keys of the
\* two sets it succeeds, each key being found in the table selected for it;
\* the two key sets are disjoint.
C5_ConstructionFailsIffUnsupported ==
    /\ sharp_keys \cap flat_keys = {}
    /\ notes.state # "none" =>
          /\ notes.state = "error"
                <=> (~Supported(notes.input_key) \/ ~Supported(notes.output_key))
          /\ notes.state = "error"
                => notes.err \in {"unsupported input key", "unsupported output key"}
          /\ notes.state = "ok" =>
                /\ notes.input_notes =
                      (IF notes.input_key \in sharp_keys THEN notes_sharp ELSE notes_flat)
                /\ notes.output_notes =
                      (IF notes.output_key \in sharp_keys THEN notes_sharp ELSE notes_flat)
                /\ IndexOf(notes.input_notes, notes.input_key) \in 0..11
                /\ IndexOf(notes.output_notes, notes.output_key) \in 0..11

C5_Witness ==
    /\ notes.state = "error"
    /\ notes.input_key = <<"G", "b">>
    /\ notes.output_key = <<"C", "b">>
    /\ notes.err = "unsupported output key"

-----------------------------------------------------------------------------
\* the chord opens with a note letter and an accidental, and the two-character
\* token is not an entry of the input table while the letter alone is
UnlistedAccidentalRoot ==
    /\ Transposed
    /\ Len(chord) = 2
    /\ chord[1] \in NoteLetters
    /\ chord[2] \in Accidentals
    /\ IndexOf(notes.input_notes, chord) = -1
    /\ IndexOf(notes.input_notes, <<chord[1]>>) # -1

\* C20: when the first two characters of a chord are a note letter followed
\* by # or b and that token is not an entry of the input table (Db when the
\* input key is a sharp key), transpose transposes the single letter and
\* leaves the accidental in place; it does not fail.
C20_FallsBackToSingleLetter ==
    UnlistedAccidentalRoot =>
        /\ result.state = "ok"
        /\ result.val = transpose_note(notes, <<chord[1]>>).val \o <<chord[2]>>

-----------------------------------------------------------------------------
\* the chord is a natural root letter followed by a suffix without notes
NaturalRoot ==
    /\ Transposed
    /\ Len(chord) >= 1
    /\ chord[1] \in NoteLetters
    /\ \A k \in 2..Len(chord) : chord[k] \notin NoteLetters
    /\ Len(chord) >= 2 => chord[2] \notin Accidentals

\* C25: transposition is total on natural roots: for every supported pair
\* of keys and each root letter A-G without accidental, transpose returns an
\* entry of the output table followed by the suffix; it does not fail.
C25_TotalOnNaturalRoots ==
    NaturalRoot =>
        /\ result.state = "ok"
        /\ \E t \in 1..12 :
              result.val = notes.output_notes[t] \o SubSeq(chord, 2, Len(chord))

\* a prefix of one or two characters of the chord is an entry of the input table
RootInTable ==
    /\ Transposed
    /\ \E n \in {1, 2} :
          /\ n <= Len(chord)
          /\ IndexOf(notes.input_notes, SubSeq(chord, 1, n)) # -1

\* C24: transposition round-trips: for all supported keys K1, K2 and every
\* chord whose root token is an entry of K1's table, with any suffix, a
\* suffix that begins with # or b included, transposing from K1 to K2 and
\* the result from K2 back to K1 returns the original symbol without error.
C24_RoundTrip ==
    RootInTable =>
        /\ result.state = "ok"
        /\ transpose(NotesNew(notes.output_key, notes.input_key), result.val)
              = Returned(chord)

-----------------------------------------------------------------------------
(* Specification of the Lyric tokenizer *)

InitParse ==
    /\ notes = NoNotes
    /\ chord = <<>>
    /\ result = NoResult
    /\ line \in Lines
    /\ lyric = NoLyric
    /\ scan = NoScan
    /\ song = NoSong
    /\ call = NoCall
    /\ OthersIdle

\* lyric = Lyric.parse(line)
Parse ==
    /\ lyric.state = "none"
    /\ lyric' = LyricParse(line)
    /\ UNCHANGED <<notes, chord, result, line, scan, song, call,
                 section, slides, threads, loader>>

NextParse == Parse

SpecParse == InitParse /\ [][NextParse]_vars

-----------------------------------------------------------------------------
(* Properties of the Lyric tokenizer, checked under SpecParse *)

\* the position in s of the first character of Character k of cs, when cs is
\* written out in its string form
RECURSIVE StartOf(_, _)
StartOf(cs, k) == IF k = 1 THEN 1 ELSE StartOf(cs, k - 1) + Len(CharacterStr(cs[k - 1]))

\* cs is the tokenization of s the documentation describes: written out, the
\* Characters give s back; a plain Character is one character other than "[";
\* a chord holds no "]"; a chord's glyph is the character after its "]", and
\* is empty exactly when that is the end of the line or another "["
Tokenizes(cs, s) ==
    /\ LyricStr(cs) = s
    /\ \A k \in 1..Len(cs) :
          LET c == cs[k]
              next == StartOf(cs, k) + Len(c.chord) + 2
          IN  IF c.has_chord
              THEN /\ \A j \in 1..Len(c.chord) : c.chord[j] # "]"
                   /\ Len(c.char) <= 1
                   /\ c.char = <<>> <=> (next > Len(s) \/ s[next] = "[")
              ELSE Len(c.char) = 1 /\ c.char # <<"[">> /\ c.chord = <<>>

HelloWorld ==
    <<"[", "C", "]", "H", "e", "l", "l", "o", " ", "[", "G", "]", "w", "o", "r", "l", "d">>

HelloWorldCharacters ==
    << ChordCharacter(<<"H">>, <<"C">>), PlainCharacter(<<"e">>), PlainCharacter(<<"l">>),
       PlainCharacter(<<"l">>), PlainCharacter(<<"o">>), PlainCharacter(<<" ">>),
       ChordCharacter(<<"w">>, <<"G">>), PlainCharacter(<<"o">>), PlainCharacter(<<"r">>),
       PlainCharacter(<<"l">>), PlainCharacter(<<"d">>) >>

\* C9 as stated: every character of the line (its line terminator apart)
\* outside brackets becomes one plain Character, and a bracketed chord takes
\* the character that follows it as its glyph.
C9_TokenizesLine ==
    lyric.state = "ok" => Tokenizes(lyric.characters, rstrip_newline(line))

\* C9: Lyric tokenizing works on the line with ALL trailing whitespace
\* removed (spaces and tabs too, not only the line terminator): every
\* character of that stripped line outside brackets becomes one plain
\* Character in order; a bracketed chord followed by a character other than
\* "[" becomes one Character with that glyph and the chord; followed by the
\* end of the stripped line or "[", a Character with empty glyph.
\* "[C]Hello [G]world" yields H(C), e, l, l, o, space, w(G), o, r, l, d.
C9_TokenizesStrippedLine ==
    /\ lyric.state = "ok" => Tokenizes(lyric.characters, rstrip(line))
    /\ (lyric.state # "none" /\ rstrip(line) = HelloWorld)
          => (lyric.state = "ok" /\ lyric.characters = HelloWorldCharacters)
    /\ (lyric.state # "none" /\ line = <<"e", "n", "d", "[", "C", "]">>)
          => (lyric.state = "ok"
                /\ lyric.characters[Len(lyric.characters)] = ChordCharacter(<<>>, <<"C">>))

C9_Witness ==
    /\ lyric.state = "ok"
    /\ line = HelloWorld
    /\ lyric.characters = HelloWorldCharacters

\* some "[" of s has no "]" after it
Unterminated(s) ==
    \E i \in 1..Len(s) : s[i] = "[" /\ \A j \in (i + 1)..Len(s) : s[j] # "]"

\* C10: Lyric parsing fails with the unterminated-chord error whenever a "["
\* has no "]" after it before the end of the right-stripped line, and for no
\* other line; on failure no Lyric is returned.
C10_FailsIffUnterminated ==
    lyric.state # "none" =>
        /\ lyric.state = "error" <=> Unterminated(rstrip(line))
        /\ lyric.state = "error" => lyric.characters = <<>>

C10_Witness ==
    /\ lyric.state = "error"
    /\ line = <<"a", "[", "G", "]", "[">>

-----------------------------------------------------------------------------
(* Specification of the Lyric chordsheet scan.  The Lyric is supplied one   *)
(* Character per loop iteration; scan holds the loop's locals, and beside   *)
(* them how many Characters were fed, the spacing amounts emitted, the last *)
(* chord seen, and the Character of the last iteration with the text that   *)
(* iteration appended to output.  The whole text of output is left out of   *)
(* the state: it is what LyricChordsheet builds from the same steps.        *)

\* chords carried by the Characters: from C to D they render as A, C# and
\* (Db is no entry of the sharp table) a ValueError
FitChords == {<<"G">>, <<"B">>, <<"D", "b">>}

FitCharacters ==
    {PlainCharacter(<<"a">>)}
        \cup {ChordCharacter(g, x) : g \in {<<>>, <<"a">>}, x \in FitChords}

\* the amount k of a piece that starts with the directive "\spv{k}", else 0
RECURSIVE DigitsValue(_, _, _)
DigitsValue(p, i, acc) ==
    IF i > Len(p) \/ p[i] = "}" THEN acc
    ELSE DigitsValue(p, i + 1,
                     10 * acc + ((CHOOSE d \in 1..10 : Digits[d] = p[i]) - 1))

SpvAmount(p) ==
    IF Len(p) >= 5 /\ SubSeq(p, 1, 5) = <<"\\", "s", "p", "v", "{">>
    THEN DigitsValue(p, 6, 0) ELSE 0

InitFit ==
    /\ notes = NotesNew(<<"C">>, <<"D">>)
    /\ chord = <<>>
    /\ result = NoResult
    /\ line = NoLine
    /\ lyric = NoLyric
    /\ scan = [NoScan EXCEPT !.pc = "loop"]
    /\ song = NoSong
    /\ call = NoCall
    /\ OthersIdle

FitIdle == <<notes, chord, result, line, lyric, song, call,
            section, slides, threads, loader>>

\* one iteration of the for loop, on the next Character of the Lyric; as in a
\* parsed line, a Character with a chord and no glyph is followed by another
\* chord or by the end of the line
ScanCharacter ==
    /\ scan.pc = "loop"
    /\ scan.fed < MaxChars
    /\ \E c \in FitCharacters :
          /\ scan.last_empty => c.has_chord
          /\ LET r == ScanStep(notes, scan.st, c)
             IN  IF ~r.ok
                 THEN scan' = [scan EXCEPT !.pc = "raised"]
                 ELSE scan' = [scan EXCEPT
                                  !.fed = @ + 1,
                                  !.spacing = @ + SpvAmount(r.piece),
                                  !.last_chord = IF c.has_chord THEN c.chord ELSE @,
                                  !.last_empty = (c.char = <<>>),
                                  !.st = r.st,
                                  !.c = c,
                                  !.piece = r.piece]
    /\ UNCHANGED FitIdle

\* the end of the Lyric: the final update of total_len and the fit test
ScanFinish ==
    /\ scan.pc = "loop"
    /\ scan' = [scan EXCEPT !.pc = "done",
                            !.total_len = FinalTotalLen(scan.st),
                            !.wrapped = exceeds_max_length(FinalTotalLen(scan.st))]
    /\ UNCHANGED FitIdle

NextFit == ScanCharacter \/ ScanFinish

SpecFit == InitFit /\ [][NextFit]_vars

-----------------------------------------------------------------------------
(* Properties of the Lyric chordsheet scan, checked under SpecFit *)

\* C8: for a Lyric line, totalWidth = (number of Characters, an empty glyph
\* counting 1) + (sum of the emitted spacing amounts) + max(0, width of the
\* last chord - charsSinceChord at the end of the scan); the line is wrapped
\* in the shrink-to-fit directive iff totalWidth > 52: 52 is not wrapped, 53 is.
C8_TotalWidthAndFit ==
    scan.pc = "done" =>
        LET width == IF scan.last_chord = <<>> THEN 0
                     ELSE Len(transpose(notes, scan.last_chord).val)
            shortfall == IF width - scan.st.characters_since_chord > 0
                         THEN width - scan.st.characters_since_chord ELSE 0
        IN  /\ scan.total_len = scan.fed + scan.spacing + shortfall
            /\ scan.wrapped <=> scan.total_len > 52
            /\ scan.total_len = 52 => ~scan.wrapped
            /\ scan.total_len = 53 => scan.wrapped

C8_Witness ==
    /\ scan.pc = "done"
    /\ scan.total_len = 53
    /\ scan.wrapped
    /\ scan.spacing > 0
    /\ scan.last_chord = <<"B">>
    /\ scan.st.characters_since_chord = 1

\* the text p holds the opening of a spacing directive
RECURSIVE HasSpvFrom(_, _)
HasSpvFrom(p, i) ==
    /\ i + 4 <= Len(p)
    /\ \/ SubSeq(p, i, i + 4) = <<"\\", "s", "p", "v", "{">>
       \/ HasSpvFrom(p, i + 1)

HasSpv(p) == HasSpvFrom(p, 1)

\* the text p starts with q
StartsWith(p, q) == Len(p) >= Len(q) /\ SubSeq(p, 1, Len(q)) = q

\* the width of the previous chord of the line as it is rendered, -1 if none
PendingWidth ==
    IF scan.last_chord = <<>> THEN -1 ELSE Len(transpose(notes, scan.last_chord).val)

\* C21: in an iteration of the scan a spacing directive is emitted exactly
\* when the Character has a chord, a previous chord exists on the line and
\* charsSinceChord <= pendingWidth; its size is pendingWidth - charsSinceChord
\* + 1, at least 1, and it stands before the new chord; there is none before
\* the first chord or when enough characters followed the previous chord.
C21_Iteration ==
    scan'.fed = scan.fed + 1 =>
        LET since == scan.st.characters_since_chord
            due == /\ scan'.c.has_chord
                   /\ scan.last_chord # <<>>
                   /\ since <= PendingWidth
            size == PendingWidth - since + 1
        IN  /\ HasSpv(scan'.piece) <=> due
            /\ due => /\ size >= 1
                      /\ StartsWith(scan'.piece, Spv(size) \o <<"\\", "c", "{">>)
                      /\ ~HasSpv(SubSeq(scan'.piece, Len(Spv(size)) + 1, Len(scan'.piece)))
            /\ scan.last_chord = <<>> => ~HasSpv(scan'.piece)
            /\ since > PendingWidth => ~HasSpv(scan'.piece)

C21_SpacingDirective == [][C21_Iteration]_vars

\* a chord whose predecessor is as wide as the characters that followed it,
\* and a chord that comes after more characters than its predecessor's width
C21_Witness ==
    /\ scan.pc = "loop"
    /\ scan.c.has_chord
    /\ scan.fed >= 4
    /\ \/ StartsWith(scan.piece, Spv(1))
       \/ StartsWith(scan.piece, Spv(2))

-----------------------------------------------------------------------------
(* Songs that are rendered *)

NameIntro == <<"I", "n", "t", "r", "o">>

NameVerse1 == <<"V", "e", "r", "s", "e", " ", "1">>

NameChorus2 == <<"C", "h", "o", "r", "u", "s", " ", "2">>

NamePreChorus2 == <<"P", "r", "e", "-", "c", "h", "o", "r", "u", "s", " ", "2">>

NameSolo == <<"S", "o", "l", "o">>

NameBridge3 == <<"B", "r", "i", "d", "g", "e", " ", "3">>

\* the sections of the song file, each with lines as Line.parse builds them
SongLines(name) ==
    IF name = NameIntro THEN << MusicLine(<< <<<<"G">>>>, <<<<"D">>>> >>) >>
    ELSE IF name = NameVerse1
    THEN << Lyric(LyricParse(<<"[", "G", "]", "a", "[", "B", "]", "b", "\n">>).characters),
            BreakLine,
            Lyric(LyricParse(<<"c", "\n">>).characters) >>
    ELSE IF name = NameChorus2
    THEN << Lyric(LyricParse(<<"[", "F", "#", "]", "d", "\n">>).characters) >>
    ELSE IF name = NamePreChorus2
    THEN << Lyric(LyricParse(<<"e", "\n">>).characters) >>
    ELSE << MusicLine(<< <<<<"A">>>> >>) >>

SectionNames == {NameIntro, NameVerse1, NameChorus2, NamePreChorus2, NameSolo}

\* names an order block may hold: the order is not checked against the sections
OrderNames == SectionNames \cup {NameBridge3}

Frequencies == {1, 3}

OrderEntries == {<<nm, f>> : nm \in OrderNames, f \in Frequencies}

Songs ==
    [sections : {[nm \in SectionNames |-> [name |-> nm, lines |-> SongLines(nm)]]},
     order : SeqsUpTo(OrderEntries, MaxOrder),
     key : {<<"C">>}]

\* keys a caller asks for: a sharp key, a flat key and an unsupported one
TargetKeys == {<<"D">>, <<"F">>, <<"H">>}

-----------------------------------------------------------------------------
(* Specification of Song.generate_chordsheet *)

InitSong ==
    /\ notes = NoNotes
    /\ chord = <<>>
    /\ result = NoResult
    /\ line = NoLine
    /\ lyric = NoLyric
    /\ scan = NoScan
    /\ song \in Songs
    /\ call = NoCall
    /\ OthersIdle

SongIdle == <<chord, result, line, lyric, scan, song,
             section, slides, threads, loader>>

\* "section_name in generated_sections" always answering no
is_repeated_section_never(section_name, generated_sections) == FALSE

\* repeated_section = section_name in generated_sections
is_repeated_section(section_name, generated_sections) ==
    section_name \in generated_sections

\* a call starts: notes = Notes(self.__key, new_key), the seen set and output
ChordsheetBegin ==
    /\ call.pc \in {"idle", "returned", "raised"}
    /\ \E new_key \in TargetKeys :
          /\ notes' = NotesNew(song.key, new_key)
          /\ call' = [NoCall EXCEPT
                         !.pc = IF notes'.state = "ok" THEN "loop" ELSE "raised",
                         !.new_key = new_key,
                         !.output = IF notes'.state = "ok"
                                    THEN <<"\\", "b", "s", "o", "n", "g", "\n", "\n">>
                                    ELSE <<>>]
    /\ UNCHANGED SongIdle

\* one iteration of the loop over self.__order
ChordsheetSection ==
    /\ call.pc = "loop"
    /\ call.i <= Len(song.order)
    /\ LET section_name == song.order[call.i][1]
           frequency == song.order[call.i][2]
       IN  IF section_name \notin DOMAIN song.sections
           THEN call' = [call EXCEPT !.pc = "raised"]
           ELSE LET r == SectionChordsheet(
                             song.sections[section_name], notes, frequency,
                             is_repeated_section(section_name, call.generated_sections))
                IN  IF ~r.ok
                    THEN call' = [call EXCEPT !.pc = "raised"]
                    ELSE call' = [call EXCEPT
                                     !.output = @ \o r.val \o <<"\n", "\n">>,
                                     !.blocks = Append(@, r.val),
                                     !.generated_sections = @ \cup {section_name},
                                     !.i = @ + 1]
    /\ UNCHANGED notes
    /\ UNCHANGED SongIdle

\* the loop is over and output is returned without the document end
ChordsheetReturnUnterminated ==
    /\ call.pc = "loop"
    /\ call.i > Len(song.order)
    /\ call' = [call EXCEPT !.pc = "returned", !.returned = call.output]
    /\ UNCHANGED notes
    /\ UNCHANGED SongIdle

\* the loop is over: the document end is appended and output returned
ChordsheetReturn ==
    /\ call.pc = "loop"
    /\ call.i > Len(song.order)
    /\ LET output == call.output \o <<"\\", "e", "s", "o", "n", "g", "\n", "\n">>
       IN  call' = [call EXCEPT !.pc = "returned", !.output = output, !.returned = output]
    /\ UNCHANGED notes
    /\ UNCHANGED SongIdle

NextSong == ChordsheetBegin \/ ChordsheetSection \/ ChordsheetReturn

SpecSong == InitSong /\ [][NextSong]_vars

-----------------------------------------------------------------------------
(* Properties of Song.generate_chordsheet, checked under SpecSong *)

EndsWith(b, p) == Len(b) >= Len(p) /\ SubSeq(b, Len(b) - Len(p) + 1, Len(b)) = p

\* b is a full rendering: a begin marker (with or without frequency), a line
\* break, the lines, a line break and the end marker of the same archetype
FullForm(b) ==
    \E k \in 1..Len(Archetypes) :
        /\ \/ StartsWith(b, Archetypes[k].begin \o <<"\n">>)
           \/ StartsWith(b, Archetypes[k].begin \o <<"[">>)
        /\ EndsWith(b, <<"\n">> \o Archetypes[k].end)

\* b is a repeat reference: a repeat marker and a braced index, nothing after
RepeatForm(b) ==
    \E k \in 1..Len(Archetypes) :
        /\ \/ StartsWith(b, Archetypes[k].repeat \o <<"{">>)
           \/ StartsWith(b, Archetypes[k].repeat \o <<"[">>)
        /\ EndsWith(b, <<"}">>)
        /\ \A j \in 1..Len(b) : b[j] # "\n"

FirstOccurrence(i) == \A j \in 1..(i - 1) : song.order[j][1] # song.order[i][1]

\* C6: walking the performance order, the entry at position i is rendered in
\* full form iff no earlier entry of the same traversal has the same section
\* name; every later entry with a seen name is rendered as a repeat
\* reference; the seen set is empty at the start of every call.
C6_FullFirstThenRepeat ==
    /\ \A i \in 1..Len(call.blocks) :
          /\ FirstOccurrence(i) <=> FullForm(call.blocks[i])
          /\ ~FirstOccurrence(i) <=> RepeatForm(call.blocks[i])
    /\ (call.pc = "loop" /\ call.i = 1) => call.generated_sections = {}
    /\ call.pc = "loop" =>
          /\ Len(call.blocks) = call.i - 1
          /\ call.generated_sections = {song.order[j][1] : j \in 1..(call.i - 1)}

C6_Witness ==
    /\ call.pc = "returned"
    /\ Len(call.blocks) = 3
    /\ song.order[1][1] = NameVerse1
    /\ song.order[2][1] = NameChorus2
    /\ song.order[3][1] = NameVerse1
    /\ FullForm(call.blocks[1])
    /\ FullForm(call.blocks[2])
    /\ RepeatForm(call.blocks[3])

\* the name has the form <letters> <digit>
LettersSpaceDigit(name) ==
    /\ Len(name) >= 3
    /\ name[Len(name)] \in {"0", "1", "2", "3", "4", "5", "6", "7", "8", "9"}
    /\ name[Len(name) - 1] = " "
    /\ \A j \in 1..(Len(name) - 2) : name[j] \in Letters

\* the repeat marker documented for each name of the songs
RepeatMarkerOf(name) ==
    IF name = NameIntro THEN <<"\\", "r", "i">>
    ELSE IF name = NameVerse1 THEN <<"\\", "r", "v">>
    ELSE IF name = NameChorus2 THEN <<"\\", "r", "c">>
    ELSE <<"\\", "r", "p">>

\* C7: a repeat reference consists of the archetype's repeat marker, the
\* frequency only when frequency > 1, and the section index: the trailing
\* digit when the name has the form <letters> <digit>, 1 otherwise.  A
\* repeat of "Chorus 2" carries index 2, with frequency 3 also 3, with
\* frequency 1 no frequency.
C7_RepeatReference ==
    \A i \in 1..Len(call.blocks) :
        ~FirstOccurrence(i) =>
            LET name == song.order[i][1]
                frequency == song.order[i][2]
                b == call.blocks[i]
                index == IF LettersSpaceDigit(name)
                         THEN CHOOSE d \in 0..9 : Str(d) = <<name[Len(name)]>>
                         ELSE 1
            IN  /\ b = RepeatMarkerOf(name)
                          \o (IF frequency > 1 THEN <<"[">> \o Str(frequency) \o <<"]">>
                              ELSE <<>>)
                          \o <<"{">> \o Str(index) \o <<"}">>
                /\ (name = NameChorus2 /\ frequency = 3)
                      => b = <<"\\", "r", "c", "[", "3", "]", "{", "2", "}">>
                /\ (name = NameChorus2 /\ frequency = 1)
                      => b = <<"\\", "r", "c", "{", "2", "}">>

C7_Witness ==
    /\ call.pc = "returned"
    /\ Len(call.blocks) = 3
    /\ song.order[1] = <<NameChorus2, 1>>
    /\ song.order[2] = <<NameChorus2, 3>>
    /\ song.order[3] = <<NameChorus2, 1>>
    /\ call.blocks[2] = <<"\\", "r", "c", "[", "3", "]", "{", "2", "}">>
    /\ call.blocks[3] = <<"\\", "r", "c", "{", "2", "}">>

RECURSIVE BlocksText(_, _)
\* the blocks from position i on, each followed by a blank-line separator
BlocksText(blocks, i) ==
    IF i > Len(blocks) THEN <<>>
    ELSE blocks[i] \o <<"\n", "\n">> \o BlocksText(blocks, i + 1)

\* C18: Song.generate_chordsheet either fails without returning any text or
\* returns a complete document: the document-begin marker, exactly one
\* rendered block per performance-order entry in performance order, each
\* followed by a blank-line separator, then the document-end marker; an
\* unsupported target key fails before any section is rendered.
C18_CompleteDocumentOrFailure ==
    /\ call.pc # "returned" => call.returned = <<>>
    /\ call.pc = "returned" =>
          /\ Len(call.blocks) = Len(song.order)
          /\ \A i \in 1..Len(call.blocks) :
                /\ song.order[i][1] \in DOMAIN song.sections
                /\ call.blocks[i] =
                      SectionChordsheet(song.sections[song.order[i][1]], notes,
                                        song.order[i][2], ~FirstOccurrence(i)).val
                /\ FullForm(call.blocks[i]) \/ RepeatForm(call.blocks[i])
          /\ call.returned = <<"\\", "b", "s", "o", "n", "g", "\n", "\n">>
                                \o BlocksText(call.blocks, 1)
                                \o <<"\\", "e", "s", "o", "n", "g", "\n", "\n">>
    /\ (call.pc # "idle" /\ ~Supported(call.new_key)) =>
          /\ call.pc = "raised"
          /\ call.blocks = <<>>
          /\ call.generated_sections = {}
          /\ call.output = <<>>

C18_Witness ==
    /\ call.pc = "returned"
    /\ Len(song.order) = 3
    /\ song.order[1][1] = NameIntro
    /\ song.order[2][1] = NameVerse1
    /\ song.order[3][1] = NameIntro
    /\ Len(call.blocks) = 3
    /\ EndsWith(call.returned,
                <<"\\", "r", "i", "{", "1", "}", "\n", "\n",
                  "\\", "e", "s", "o", "n", "g", "\n", "\n">>)

(* Specification of a Section: its methods are called in any order *)

\* longest list of lines of a Section
MaxLines == 4

\* spellings of section names: the supported ones and some that are not
Spellings ==
    {<<"I", "n", "t", "r", "o">>,
     <<"O", "u", "t", "r", "o">>,
     <<"V", "e", "r", "s", "e">>,
     <<"P", "r", "e", "c", "h", "o", "r", "u", "s">>,
     <<"P", "r", "e", "-", "c", "h", "o", "r", "u", "s">>,
     <<"P", "r", "e", "-", "C", "h", "o", "r", "u", "s">>,
     <<"C", "h", "o", "r", "u", "s">>,
     <<"B", "r", "e", "a", "k">>,
     <<"I", "n", "s", "t", "r", "u", "m", "e", "n", "t", "a", "l">>,
     <<"B", "r", "i", "d", "g", "e">>,
     <<"T", "a", "g">>,
     <<"S", "o", "l", "o">>,
     <<"v", "e", "r", "s", "e">>,
     <<"P", "r", "e", " ", "c", "h", "o", "r", "u", "s">>,
     <<>>}

\* what follows the spelling in a name
Suffixes ==
    {<<>>,
     <<" ", "2">>,
     <<" ", "0">>,
     <<" ", "1", "2">>,
     <<"2">>,
     <<" ">>,
     <<"\n">>,
     <<" ", "2", "\n">>,
     <<" ", "x">>}

\* the names a Section is built with
WrapperNames == {s \o x : s \in Spellings, x \in Suffixes}

\* the lines a Section is built from
SlideLines ==
    {Lyric(<<PlainCharacter(<<"a">>)>>),
     Lyric(<<ChordCharacter(<<"b">>, <<"G">>), PlainCharacter(<<"c">>)>>),
     BreakLine,
     MusicLine(<< <<<<"G">>>> >>)}

\* Section(name, lines)
SectionNew(name, lines) == [NoSection EXCEPT !.name = name, !.lines = lines]

Sections ==
    {SectionNew(nm, <<>>) : nm \in WrapperNames}
        \cup {SectionNew(<<"V", "e", "r", "s", "e", " ", "1">>, ls) :
                 ls \in SeqsUpTo(SlideLines, MaxLines)}

InitSection ==
    /\ notes = NoNotes
    /\ chord = <<>>
    /\ result = NoResult
    /\ line = NoLine
    /\ lyric = NoLyric
    /\ scan = NoScan
    /\ song = NoSong
    /\ call = NoCall
    /\ section \in Sections
    /\ slides = NoSlides
    /\ threads = NoThreads
    /\ loader = NoLoader

SectionIdle == <<notes, chord, result, line, lyric, scan, song, call,
                slides, threads, loader>>

\* section.get_wrapper(repeat)
GetWrapper ==
    /\ \E repeat \in BOOLEAN :
          section' = [section EXCEPT !.op = "get_wrapper", !.arg = repeat,
                                     !.wrapper = get_wrapper(section.name, repeat)]
    /\ UNCHANGED SectionIdle

\* section.has_lyrics()
HasLyrics ==
    /\ section' = [section EXCEPT !.op = "has_lyrics",
                                  !.has_lyrics = has_lyrics(section.lines)]
    /\ UNCHANGED SectionIdle

\* section.generate_slides(is_first_slide)
GenerateSlides ==
    /\ \E is_first_slide \in BOOLEAN :
          section' = [section EXCEPT !.op = "generate_slides", !.arg = is_first_slide,
                                     !.slides = SectionSlides(section.lines, is_first_slide)]
    /\ UNCHANGED SectionIdle

NextSection == GetWrapper \/ HasLyrics \/ GenerateSlides

SpecSection == InitSection /\ [][NextSection]_vars

-----------------------------------------------------------------------------
(* Properties of a Section, checked under SpecSection *)

\* the names that may carry a digit
DigitBases ==
    {<<"V", "e", "r", "s", "e">>,
     <<"P", "r", "e", "c", "h", "o", "r", "u", "s">>,
     <<"P", "r", "e", "-", "c", "h", "o", "r", "u", "s">>,
     <<"P", "r", "e", "-", "C", "h", "o", "r", "u", "s">>,
     <<"C", "h", "o", "r", "u", "s">>,
     <<"B", "r", "e", "a", "k">>,
     <<"I", "n", "s", "t", "r", "u", "m", "e", "n", "t", "a", "l">>,
     <<"B", "r", "i", "d", "g", "e">>,
     <<"T", "a", "g">>}

AcceptedNames ==
    {<<"I", "n", "t", "r", "o">>, <<"O", "u", "t", "r", "o">>}
        \cup DigitBases
        \cup {b \o <<" ", Digits[d]>> : b \in DigitBases, d \in 1..10}

\* C17: wrapper resolution succeeds exactly for Intro, Outro, and Verse,
\* Prechorus, Pre-chorus, Pre-Chorus, Chorus, Break, Instrumental, Bridge,
\* Tag each optionally followed by one space and one digit; for every other
\* name it fails, for first and for repeat occurrences alike; distinct
\* archetypes get distinct begin/end pairs and distinct repeat markers.
C17_SucceedsExactlyForListedNames ==
    /\ section.op = "get_wrapper" =>
          (section.wrapper.ok <=> section.name \in AcceptedNames)
    /\ \A j, k \in 1..Len(Archetypes) :
          j # k => /\ <<Archetypes[j].begin, Archetypes[j].end>>
                        # <<Archetypes[k].begin, Archetypes[k].end>>
                   /\ Archetypes[j].repeat # Archetypes[k].repeat

\* lines a..b are a maximal run of consecutive lines that are not breaks
MaximalRun(lines, a, b) ==
    /\ a <= b
    /\ \A k \in a..b : lines[k].kind # "break"
    /\ a = 1 \/ lines[a - 1].kind = "break"
    /\ b = Len(lines) \/ lines[b + 1].kind = "break"

Runs(lines) ==
    {r \in (1..Len(lines)) \X (1..Len(lines)) : MaximalRun(lines, r[1], r[2])}

\* the position of run r among the runs, in line order
RunRank(lines, r) == Cardinality({q \in Runs(lines) : q[1] <= r[1]})

RECURSIVE RunBody(_, _, _)
\* the lyric text of lines a..b joined by blank lines
RunBody(lines, a, b) ==
    IF a > b THEN <<>>
    ELSE IF a = b THEN LineGetLyrics(lines[a])
    ELSE LineGetLyrics(lines[a]) \o <<"\n", "\n">> \o RunBody(lines, a + 1, b)

\* a frame around body, with the citation footer when cited
FrameAround(body, cited) ==
    <<"\\", "b", "e", "g", "i", "n", "{", "f", "r", "a", "m", "e", "}", "\n",
      "\\", "h", "e", "a", "d", "e", "r", "\n",
      "\\", "b", "e", "g", "i", "n", "{", "c", "e", "n", "t", "e", "r", "}", "\n">>
    \o body
    \o <<"\n", "\\", "e", "n", "d", "{", "c", "e", "n", "t", "e", "r", "}", "\n">>
    \o (IF cited THEN <<"\\", "c", "i", "t", "e", "\n">> ELSE <<>>)
    \o <<"\\", "e", "n", "d", "{", "f", "r", "a", "m", "e", "}">>

RECURSIVE Concat(_, _)
Concat(parts, i) == IF i > Len(parts) THEN <<>> ELSE parts[i] \o Concat(parts, i + 1)

SlidesRendered == section.op = "generate_slides" /\ section.slides.ok

LyricLyricBreakLyric(lines) ==
    /\ Len(lines) = 4
    /\ lines[1].kind = "lyric"
    /\ lines[2].kind = "lyric"
    /\ lines[3].kind = "break"
    /\ lines[4].kind = "lyric"

SlideOrderEntries ==
    {<<NameIntro, 1>>, <<NameVerse1, 1>>, <<NameVerse1, 3>>, <<NameChorus2, 1>>,
     <<NameBridge3, 1>>}

SlideSongs ==
    [sections : {[nm \in SectionNames |-> [name |-> nm, lines |-> SongLines(nm)]]},
     order : SeqsUpTo(SlideOrderEntries, MaxOrder),
     key : {<<"C">>}]

\* a condition that renders at every position
should_render_always(repeat, section_name, generated_sections) == TRUE

\* repeat or section_name not in generated_sections
should_render(repeat, section_name, generated_sections) ==
    repeat \/ section_name \notin generated_sections

\* the locals at the start of the loop of generate_slides(repeat)
SlidesStart(repeat) == [NoSlides EXCEPT !.pc = "loop", !.repeat = repeat]

\* one iteration of the loop over self.__order; rendered records the
\* position and the frames of every section that was emitted
SlidesStep(sg, c) ==
    LET section_name == sg.order[c.i][1]
        visited == [c EXCEPT !.generated_sections = @ \cup {section_name},
                             !.i = @ + 1]
    IN  IF ~should_render(c.repeat, section_name, c.generated_sections)
        THEN visited
        ELSE IF section_name \notin DOMAIN sg.sections
        THEN [c EXCEPT !.pc = "raised"]
        ELSE IF ~has_lyrics(sg.sections[section_name].lines)
        THEN visited
        ELSE LET r == SectionSlides(sg.sections[section_name].lines, c.first_slide)
             IN  IF ~r.ok
                 THEN [c EXCEPT !.pc = "raised"]
                 ELSE [visited EXCEPT
                          !.output = @ \o r.val \o <<"\n", "\n">>,
                          !.first_slide = FALSE,
                          !.rendered = Append(@, [pos |-> c.i, frames |-> r.frames])]

\* return output
SlidesFinish(c) == [c EXCEPT !.pc = "returned", !.returned = c.output]

InitSlides ==
    /\ notes = NoNotes
    /\ chord = <<>>
    /\ result = NoResult
    /\ line = NoLine
    /\ lyric = NoLyric
    /\ scan = NoScan
    /\ song \in SlideSongs
    /\ call = NoCall
    /\ section \in {SectionNew(nm, song.sections[nm].lines) : nm \in DOMAIN song.sections}
    /\ slides = NoSlides
    /\ threads = NoThreads
    /\ loader = NoLoader

SlidesIdle == <<notes, chord, result, line, lyric, scan, song, call,
               section, threads, loader>>

\* song.generate_slides(repeat) is called
SlidesBegin ==
    /\ slides.pc \in {"idle", "returned", "raised"}
    /\ \E repeat \in BOOLEAN : slides' = SlidesStart(repeat)
    /\ UNCHANGED SlidesIdle

SlidesSection ==
    /\ slides.pc = "loop"
    /\ slides.i <= Len(song.order)
    /\ slides' = SlidesStep(song, slides)
    /\ UNCHANGED SlidesIdle

SlidesReturn ==
    /\ slides.pc = "loop"
    /\ slides.i > Len(song.order)
    /\ slides' = SlidesFinish(slides)
    /\ UNCHANGED SlidesIdle

NextSlides ==
    \/ SlidesBegin
    \/ SlidesSection
    \/ SlidesReturn
    \/ HasLyrics
    \/ GenerateSlides

SpecSlides == InitSlides /\ [][NextSlides]_vars

-----------------------------------------------------------------------------
(* Properties of Song.generate_slides, checked under SpecSlides *)

\* the frames of the output so far, over all sections, in order
RECURSIVE FramesFrom(_, _)
FramesFrom(rendered, k) ==
    IF k > Len(rendered) THEN <<>>
    ELSE rendered[k].frames \o FramesFrom(rendered, k + 1)

AllFrames == FramesFrom(slides.rendered, 1)

\* the frame carries the citation footer
Cited(frame) ==
    EndsWith(frame, <<"\\", "c", "i", "t", "e", "\n",
                      "\\", "e", "n", "d", "{", "f", "r", "a", "m", "e", "}">>)

\* the positions of text at which the citation footer starts
CitePositions(text) ==
    {j \in 1..Len(text) :
        /\ j + 5 <= Len(text)
        /\ SubSeq(text, j, j + 5) = <<"\\", "c", "i", "t", "e", "\n">>}

\* C12: when at least one frame is produced, the citation footer appears in
\* exactly one frame of the song's slide output, the first frame of the
\* song, and in no other frame, the other frames of the same section
\* included.
C12_CitationInFirstFrameOnly ==
    (slides.pc = "returned" /\ Len(AllFrames) >= 1) =>
        /\ Cited(AllFrames[1])
        /\ \A k \in 2..Len(AllFrames) : ~Cited(AllFrames[k])
        /\ Cardinality(CitePositions(slides.returned)) = 1

SomeLineIsLyric(lines) == \E k \in 1..Len(lines) : lines[k].kind = "lyric"

\* the entry at position i names a section that has a Lyric line
LyricBearing(i) ==
    /\ song.order[i][1] \in DOMAIN song.sections
    /\ SomeLineIsLyric(song.sections[song.order[i][1]].lines)

RenderedPositions == {slides.rendered[k].pos : k \in 1..Len(slides.rendered)}

Dangling == \E i \in 1..Len(song.order) : song.order[i][1] \notin DOMAIN song.sections

\* C13: a section has lyrics iff at least one of its lines is a Lyric;
\* section-level slides of a section without lyrics raise; and
\* Song.generate_slides skips such sections: it renders nothing for them
\* and does not fail because of them.
C13_LyriclessSectionsSkipped ==
    /\ section.op = "has_lyrics" =>
          (section.has_lyrics <=> SomeLineIsLyric(section.lines))
    /\ section.op = "generate_slides" =>
          (section.slides.ok <=> SomeLineIsLyric(section.lines))
    /\ \A i \in RenderedPositions : LyricBearing(i)
    /\ slides.pc = "raised" => Dangling
    /\ (slides.pc = "returned" /\ slides.repeat) =>
          RenderedPositions = {i \in 1..Len(song.order) : LyricBearing(i)}

C13_Witness ==
    /\ section.op = "generate_slides"
    /\ section.name = NameIntro
    /\ ~section.slides.ok
    /\ slides.pc = "returned"
    /\ slides.repeat
    /\ Len(song.order) = 3
    /\ song.order[1][1] = NameIntro
    /\ song.order[2][1] = NameVerse1
    /\ song.order[3][1] = NameIntro
    /\ RenderedPositions = {2}

RECURSIVE RenderedText(_, _)
\* the frames of each rendered section followed by a blank-line separator
RenderedText(rendered, k) ==
    IF k > Len(rendered) THEN <<>>
    ELSE Concat(rendered[k].frames, 1) \o <<"\n", "\n">> \o RenderedText(rendered, k + 1)

\* C14: with repeat False a lyric-bearing section is rendered only at the
\* first position at which it occurs in the order; with repeat True it is
\* rendered at every position at which it occurs; the output is built from
\* the names of the order alone, so the repeat counts have no effect.
C14_RepeatFlagDecidesRecurrence ==
    slides.pc = "returned" =>
        /\ RenderedPositions =
              {i \in 1..Len(song.order) :
                  LyricBearing(i) /\ (slides.repeat \/ FirstOccurrence(i))}
        /\ \A j, k \in 1..Len(slides.rendered) :
              j < k => slides.rendered[j].pos < slides.rendered[k].pos
        /\ \A k \in 1..Len(slides.rendered) :
              slides.rendered[k].frames =
                  SectionSlides(song.sections[song.order[slides.rendered[k].pos][1]].lines,
                                k = 1).frames
        /\ slides.returned = RenderedText(slides.rendered, 1)

C14_Witness ==
    /\ slides.pc = "returned"
    /\ ~slides.repeat
    /\ Len(song.order) = 3
    /\ song.order[1] = <<NameVerse1, 3>>
    /\ song.order[2] = <<NameChorus2, 1>>
    /\ song.order[3] = <<NameVerse1, 1>>
    /\ RenderedPositions = {1, 2}

-----------------------------------------------------------------------------
(* Specification of render calls on one Song: each caller makes one call   *)
(* after another, and the steps of the callers' calls are interleaved.     *)
(* Each thread holds the arguments and the locals of its current call, the *)
(* arguments and outcome of an earlier call of its own, and whether a step *)
(* of its call was taken while the other caller was inside a loop.         *)

Threads == {1, 2}

\* the orders of the songs that are rendered by the callers
CallOrders ==
    {<< <<NameVerse1, 1>>, <<NameChorus2, 3>>, <<NameVerse1, 1>> >>,
     << <<NameIntro, 1>>, <<NameVerse1, 3>>, <<NameVerse1, 1>> >>,
     << <<NameChorus2, 1>>, <<NameBridge3, 1>> >>,
     << <<NameVerse1, 1>>, <<NameVerse1, 1>> >>}

CallSongs ==
    [sections : {[nm \in SectionNames |-> [name |-> nm, lines |-> SongLines(nm)]]},
     order : CallOrders,
     key : {<<"C">>}]

\* the target keys the callers ask for: a supported and an unsupported one
CallKeys == {<<"D">>, <<"H">>}

\* the locals at the start of the loop of generate_chordsheet(new_key); the
\* call's Notes object is NotesNew(sg.key, new_key) throughout
ChordsheetStart(sg, new_key) ==
    LET n == NotesNew(sg.key, new_key)
    IN  [NoCall EXCEPT
            !.pc = IF n.state = "ok" THEN "loop" ELSE "raised",
            !.new_key = new_key,
            !.output = IF n.state = "ok"
                       THEN <<"\\", "b", "s", "o", "n", "g", "\n", "\n">>
                       ELSE <<>>]

\* one iteration of the loop over self.__order
ChordsheetStep(sg, c) ==
    LET section_name == sg.order[c.i][1]
        frequency == sg.order[c.i][2]
    IN  IF section_name \notin DOMAIN sg.sections
        THEN [c EXCEPT !.pc = "raised"]
        ELSE LET r == SectionChordsheet(
                          sg.sections[section_name], NotesNew(sg.key, c.new_key), frequency,
                          is_repeated_section(section_name, c.generated_sections))
             IN  IF ~r.ok
                 THEN [c EXCEPT !.pc = "raised"]
                 ELSE [c EXCEPT
                          !.output = @ \o r.val \o <<"\n", "\n">>,
                          !.blocks = Append(@, r.val),
                          !.generated_sections = @ \cup {section_name},
                          !.i = @ + 1]

\* the document end is appended and output returned
ChordsheetFinish(c) ==
    LET output == c.output \o <<"\\", "e", "s", "o", "n", "g", "\n", "\n">>
    IN  [c EXCEPT !.pc = "returned", !.output = output, !.returned = output]

NoEarlier ==
    [kind |-> "none", new_key |-> <<>>, repeat |-> FALSE, pc |-> "idle", returned |-> <<>>]

NoThread ==
    [kind |-> "none", new_key |-> <<>>, repeat |-> FALSE, c |-> NoCall,
     earlier |-> NoEarlier, overlapped |-> FALSE]

\* a seen set kept from the caller's previous call
generated_sections_kept(c) == c.generated_sections

\* generated_sections = set(): every call starts with an empty seen set
generated_sections_new(c) == {}

\* a seen set that all running calls share
generated_sections_shared(ths, t) == UNION {ths[u].c.generated_sections : u \in Threads}

\* the seen set a call reads and updates is its own local
generated_sections_of(ths, t) == ths[t].c.generated_sections

Finished(th) == th.kind # "none" /\ th.c.pc \in {"returned", "raised"}

InLoop(th) == th.kind # "none" /\ th.c.pc = "loop"

InitCalls ==
    /\ notes = NoNotes
    /\ chord = <<>>
    /\ result = NoResult
    /\ line = NoLine
    /\ lyric = NoLyric
    /\ scan = NoScan
    /\ song \in CallSongs
    /\ call = NoCall
    /\ section = NoSection
    /\ slides = NoSlides
    /\ threads = [t \in Threads |-> NoThread]
    /\ loader = NoLoader

CallsIdle == <<notes, chord, result, line, lyric, scan, song, call,
              section, slides, loader>>

\* the outcome of the call that ends here may be kept for later comparison
Remembered(th) ==
    {th.earlier} \cup
        (IF Finished(th)
         THEN {[kind |-> th.kind, new_key |-> th.new_key, repeat |-> th.repeat,
                pc |-> th.c.pc, returned |-> th.c.returned]}
         ELSE {})

\* caller t calls song.generate_chordsheet(new_key)
CallChordsheet(t) ==
    /\ ~InLoop(threads[t])
    /\ \E new_key \in CallKeys, e \in Remembered(threads[t]) :
          threads' = [threads EXCEPT ![t] =
              [kind |-> "chordsheet", new_key |-> new_key, repeat |-> FALSE,
               c |-> [ChordsheetStart(song, new_key) EXCEPT
                         !.generated_sections = generated_sections_new(threads[t].c)],
               earlier |-> e, overlapped |-> FALSE]]
    /\ UNCHANGED CallsIdle

\* caller t calls song.generate_slides(repeat)
CallSlides(t) ==
    /\ ~InLoop(threads[t])
    /\ \E repeat \in BOOLEAN, e \in Remembered(threads[t]) :
          threads' = [threads EXCEPT ![t] =
              [kind |-> "slides", new_key |-> <<>>, repeat |-> repeat,
               c |-> [SlidesStart(repeat) EXCEPT
                         !.generated_sections = generated_sections_new(threads[t].c)],
               earlier |-> e, overlapped |-> FALSE]]
    /\ UNCHANGED CallsIdle

\* one loop iteration of caller t's call
CallStep(t) ==
    /\ InLoop(threads[t])
    /\ threads[t].c.i <= Len(song.order)
    /\ LET c == [threads[t].c EXCEPT
                    !.generated_sections = generated_sections_of(threads, t)]
           overlapped == \E u \in Threads \ {t} :
                             InLoop(threads[u]) /\ threads[u].c.generated_sections # {}
       IN  threads' = [threads EXCEPT
               ![t].c = IF threads[t].kind = "chordsheet"
                        THEN ChordsheetStep(song, c) ELSE SlidesStep(song, c),
               ![t].overlapped = @ \/ overlapped]
    /\ UNCHANGED CallsIdle

\* caller t's call returns
CallReturn(t) ==
    /\ InLoop(threads[t])
    /\ threads[t].c.i > Len(song.order)
    /\ threads' = [threads EXCEPT
           ![t].c = IF threads[t].kind = "chordsheet"
                    THEN ChordsheetFinish(@) ELSE SlidesFinish(@)]
    /\ UNCHANGED CallsIdle

NextCalls ==
    \E t \in Threads :
        \/ CallChordsheet(t)
        \/ CallSlides(t)
        \/ CallStep(t)
        \/ CallReturn(t)

SpecCalls == InitCalls /\ [][NextCalls]_vars

-----------------------------------------------------------------------------
(* Properties of render calls, checked under SpecCalls *)

\* what a finished call came to: returned with its text, or raised
Outcome(c) == [pc |-> c.pc, returned |-> c.returned]

SameCall(a, b) ==
    /\ a.kind # "none"
    /\ a.kind = b.kind
    /\ a.new_key = b.new_key
    /\ a.repeat = b.repeat

\* every finished call agrees with the remembered earlier call of the same
\* caller and with the finished call of the other caller, when the calls
\* are the same
SameCallSameOutcome ==
    \A t \in Threads :
        Finished(threads[t]) =>
            /\ SameCall(threads[t], threads[t].earlier) =>
                  Outcome(threads[t].c) = Outcome(threads[t].earlier)
            /\ \A u \in Threads :
                  (Finished(threads[u]) /\ SameCall(threads[t], threads[u])) =>
                      Outcome(threads[t].c) = Outcome(threads[u].c)

\* C15: after any sequence of generate_chordsheet and generate_slides calls
\* on a Song, failing calls included, the Song's section map, performance
\* order, original key and every Section's lines are unchanged, and the same
\* call repeated later returns the same string: the seen set does not carry
\* over from one call to the next.
C15_SongUnchangedCallsRepeatable ==
    [][/\ song' = song
       /\ SameCallSameOutcome'
       /\ \A t \in Threads :
             (threads'[t].kind # "none" /\ threads'[t].c.pc = "loop"
                  /\ threads'[t].c.i = 1)
                 => threads'[t].c.generated_sections = {}]_vars

C15_Witness ==
    /\ song.order[1][1] = NameVerse1
    /\ song.order[Len(song.order)][1] = NameVerse1
    /\ Finished(threads[1])
    /\ threads[1].kind = "chordsheet"
    /\ threads[1].c.pc = "returned"
    /\ SameCall(threads[1], threads[1].earlier)
    /\ threads[1].earlier.returned = threads[1].c.returned
    /\ Finished(threads[2])
    /\ threads[2].c.pc = "raised"
    /\ threads[2].earlier.kind = "slides"

RECURSIVE RunChordsheet(_, _)
RunChordsheet(sg, c) ==
    IF c.pc # "loop" THEN c
    ELSE IF c.i > Len(sg.order) THEN ChordsheetFinish(c)
    ELSE RunChordsheet(sg, ChordsheetStep(sg, c))

RECURSIVE RunSlides(_, _)
RunSlides(sg, c) ==
    IF c.pc # "loop" THEN c
    ELSE IF c.i > Len(sg.order) THEN SlidesFinish(c)
    ELSE RunSlides(sg, SlidesStep(sg, c))

\* the outcome of thread th's call when it runs alone, from start to end
RunAlone(sg, th) ==
    IF th.kind = "chordsheet"
    THEN Outcome(RunChordsheet(sg, ChordsheetStart(sg, th.new_key)))
    ELSE Outcome(RunSlides(sg, SlidesStart(th.repeat)))

\* C16: two render calls on the same Song whose steps are interleaved
\* arbitrarily each produce exactly the output they produce when run alone;
\* no interleaving makes a section's first occurrence in one call render as
\* a repeat because of the other call.
C16_InterleavedCallsAsAlone ==
    \A t \in Threads :
        /\ Finished(threads[t]) => Outcome(threads[t].c) = RunAlone(song, threads[t])
        /\ threads[t].kind = "chordsheet" =>
              \A i \in 1..Len(threads[t].c.blocks) :
                  FirstOccurrence(i) => FullForm(threads[t].c.blocks[i])
        /\ (threads[t].kind = "slides" /\ threads[t].c.pc = "returned") =>
              {threads[t].c.rendered[k].pos : k \in 1..Len(threads[t].c.rendered)}
                  = {i \in 1..Len(song.order) :
                        LyricBearing(i) /\ (threads[t].repeat \/ FirstOccurrence(i))}

C16_Witness ==
    /\ song.order[1][1] = NameVerse1
    /\ \A t \in Threads :
          /\ Finished(threads[t])
          /\ threads[t].c.pc = "returned"
          /\ threads[t].overlapped
    /\ threads[1].kind = "chordsheet"
    /\ threads[2].kind = "slides"
    /\ ~threads[2].repeat
    /\ FullForm(threads[1].c.blocks[1])
    /\ threads[2].c.rendered[1].pos = 1

-----------------------------------------------------------------------------
(* The loader: parse() of src/generate_music.py *)

UpperAlphabet ==
    <<"A", "B", "C", "D", "E", "F", "G", "H", "I", "J", "K", "L", "M",
      "N", "O", "P", "Q", "R", "S", "T", "U", "V", "W", "X", "Y", "Z">>

LowerAlphabet ==
    <<"a", "b", "c", "d", "e", "f", "g", "h", "i", "j", "k", "l", "m",
      "n", "o", "p", "q", "r", "s", "t", "u", "v", "w", "x", "y", "z">>

\* c.lower()
Lower(c) ==
    IF \E k \in 1..26 : UpperAlphabet[k] = c
    THEN LowerAlphabet[CHOOSE k \in 1..26 : UpperAlphabet[k] = c]
    ELSE c

LowerStr(s) == [k \in 1..Len(s) |-> Lower(s[k])]

\* the class [a-zA-Z0-9 ] of section names
NameChars == Letters \cup {Digits[d] : d \in 1..10} \cup {" "}

\* the class [a-zA-Z0-9 :,'()/-] of song titles
TitleChars == NameChars \cup {":", ",", "'", "(", ")", "/", "-"}

DEFAULT_KEY == <<"C">>

\* re.match(SONG_TAG_REGEX, l)
SongTag(l) ==
    \E t \in DollarTexts(l) :
        /\ Len(t) > 7
        /\ SubSeq(t, 1, 7) = <<"<", "s", "o", "n", "g", ">", " ">>
        /\ \A k \in 8..Len(t) : t[k] \in TitleChars

\* "[A-G][#b]? major|minor" covers the whole of g, ignoring case
KeyInfo(g) ==
    \/ LowerStr(g) = <<"m", "i", "n", "o", "r">>
    \/ \E n \in {1, 2} :
          /\ Len(g) = n + 6
          /\ Lower(g[1]) \in {"a", "b", "c", "d", "e", "f", "g"}
          /\ n = 2 => Lower(g[2]) \in {"#", "b"}
          /\ LowerStr(SubSeq(g, n + 1, Len(g))) = <<" ", "m", "a", "j", "o", "r">>

\* re.match(KEY_TAG_REGEX, l, re.IGNORECASE): group 1, <<>> when no match
KeyTag(l) ==
    LET fits(t) == /\ Len(t) > 6
                   /\ LowerStr(SubSeq(t, 1, 6)) = <<"<", "k", "e", "y", ">", " ">>
                   /\ KeyInfo(SubSeq(t, 7, Len(t)))
    IN  IF \E t \in DollarTexts(l) : fits(t)
        THEN LET t == CHOOSE t \in DollarTexts(l) : fits(t) IN SubSeq(t, 7, Len(t))
        ELSE <<>>

\* re.match("^<order>", l)
OrderTag(l) == StartsWith(l, <<"<", "o", "r", "d", "e", "r", ">">>)

\* re.match("^<([a-zA-Z0-9 ]+)>$", l): group 1, <<>> when no match
SectionTag(l) ==
    LET fits(t) == /\ Len(t) >= 3
                   /\ t[1] = "<"
                   /\ t[Len(t)] = ">"
                   /\ \A k \in 2..(Len(t) - 1) : t[k] \in NameChars
    IN  IF \E t \in DollarTexts(l) : fits(t)
        THEN LET t == CHOOSE t \in DollarTexts(l) : fits(t) IN SubSeq(t, 2, Len(t) - 1)
        ELSE <<>>

\* t is name followed by " (x?<digits>x?)": group 2 of the order pattern
FrequencySuffix(s) ==
    /\ Len(s) >= 4
    /\ s[1] = " "
    /\ s[2] = "("
    /\ s[Len(s)] = ")"
    /\ LET inner == SubSeq(s, 3, Len(s) - 1)
           a == IF inner[1] = "x" THEN Tail(inner) ELSE inner
           b == IF Len(a) > 0 /\ a[Len(a)] = "x" THEN SubSeq(a, 1, Len(a) - 1) ELSE a
       IN  /\ Len(b) > 0
           /\ \A k \in 1..Len(b) : IsDigit(b[k])

\* the last digit of the suffix: group 3 of the order pattern
FrequencyDigit(s) ==
    LET k == CHOOSE k \in 1..Len(s) :
                 IsDigit(s[k]) /\ \A j \in (k + 1)..Len(s) : ~IsDigit(s[j])
    IN  DigitValue(s[k])

\* re.match("^([a-zA-Z0-9 ]+?)( \(x?(\d)+x?\))?$", l) and what the loader
\* takes from it; no match makes match.group raise
OrderEntry(l) ==
    LET named(t, n) == n >= 1 /\ \A k \in 1..n : t[k] \in NameChars
        fits(t, n) == /\ named(t, n)
                      /\ n = Len(t) \/ FrequencySuffix(SubSeq(t, n + 1, Len(t)))
        matches == {<<t, n>> \in DollarTexts(l) \X (1..Len(l)) : n <= Len(t) /\ fits(t, n)}
    IN  IF matches = {} THEN [ok |-> FALSE, name |-> <<>>, frequency |-> 0]
        ELSE LET m == CHOOSE m \in matches : TRUE
                 t == m[1]
                 n == m[2]
             IN  [ok |-> TRUE, name |-> SubSeq(t, 1, n),
                  frequency |-> IF n = Len(t) THEN 1
                                ELSE FrequencyDigit(SubSeq(t, n + 1, Len(t)))]

\* sections[section_name] = Section(section_name, lines)
Store(sections, section_name, lines) ==
    [nm \in DOMAIN sections \cup {section_name} |->
        IF nm = section_name THEN [name |-> section_name, lines |-> lines]
        ELSE sections[nm]]

\* the locals of parse() before the first line, and the last line read
LoaderStart ==
    [pc |-> "reading", MODE |-> "NORMAL", header_data |-> {}, sections |-> <<>>,
     lines |-> <<>>, order |-> <<>>, old_key |-> DEFAULT_KEY, section_name |-> <<>>,
     n |-> 0, l |-> <<>>]

\* the body of the loop over the lines of the file, for line l
LoaderLine(ld, l) ==
    LET c == [ld EXCEPT !.n = @ + 1, !.l = l]
    IN  IF c.MODE = "NORMAL"
        THEN IF SongTag(l) THEN [c EXCEPT !.header_data = @ \cup {"song"}]
             ELSE IF KeyTag(l) # <<>>
             THEN LET key_info == Split(KeyTag(l), " ")
                  IN  IF Len(key_info) < 2 THEN [c EXCEPT !.pc = "raised"]
                      ELSE [c EXCEPT !.old_key = key_info[1],
                                     !.header_data = @ \cup {"major_minor"}]
             ELSE IF OrderTag(l) THEN [c EXCEPT !.MODE = "ORDER"]
             ELSE IF SectionTag(l) # <<>>
             THEN [c EXCEPT !.MODE = "SECTION", !.lines = <<>>,
                            !.section_name = SectionTag(l)]
             ELSE c
        ELSE IF c.MODE = "ORDER"
        THEN IF l = <<"\n">> THEN [c EXCEPT !.MODE = "NORMAL"]
             ELSE LET match == OrderEntry(l)
                  IN  IF ~match.ok THEN [c EXCEPT !.pc = "raised"]
                      ELSE [c EXCEPT !.order = Append(@, <<match.name, match.frequency>>)]
        ELSE IF l = <<"\n">>
             THEN [c EXCEPT !.MODE = "NORMAL",
                            !.sections = Store(@, c.section_name, c.lines),
                            !.section_name = <<>>]
             ELSE LET r == LineParse(l)
                  IN  IF ~r.ok THEN [c EXCEPT !.pc = "raised"]
                      ELSE [c EXCEPT !.lines = Append(@, r.line)]

\* after the loop: a section that ended without a blank line is stored, and
\* verify_data raises when the song title or the key is missing
LoaderEnd(ld) ==
    LET c == IF ld.MODE = "SECTION"
             THEN [ld EXCEPT !.sections = Store(@, ld.section_name, ld.lines)]
             ELSE ld
    IN  IF {"song", "major_minor"} \subseteq c.header_data
        THEN [c EXCEPT !.pc = "returned"]
        ELSE [c EXCEPT !.pc = "raised"]

-----------------------------------------------------------------------------
(* Specification of the loader: the lines of a file are read one by one *)

\* most lines in a file
MaxFile == 7

\* the lines a file is made of
FileLines ==
    {<<"<", "s", "o", "n", "g", ">", " ", "A", "\n">>,
     <<"<", "k", "e", "y", ">", " ", "C", " ", "m", "a", "j", "o", "r", "\n">>,
     <<"<", "o", "r", "d", "e", "r", ">", "\n">>,
     <<"<", "V", "e", "r", "s", "e", " ", "1", ">", "\n">>,
     <<"V", "e", "r", "s", "e", " ", "1", "\n">>,
     <<"B", "r", "i", "d", "g", "e", " ", "3", " ", "(", "x", "3", ")", "\n">>,
     <<"\n">>,
     <<"[", "G", "]", "a", "\n">>}

InitLoader ==
    /\ notes = NoNotes
    /\ chord = <<>>
    /\ result = NoResult
    /\ line = NoLine
    /\ lyric = NoLyric
    /\ scan = NoScan
    /\ song = NoSong
    /\ call = NoCall
    /\ section = NoSection
    /\ slides = NoSlides
    /\ threads = NoThreads
    /\ loader = LoaderStart

LoaderIdle == <<notes, chord, result, line, lyric, scan, call,
               section, slides, threads>>

\* the loop takes the next line of the file
ReadLine ==
    /\ loader.pc = "reading"
    /\ loader.n < MaxFile
    /\ \E l \in FileLines : loader' = LoaderLine(loader, l)
    /\ UNCHANGED song
    /\ UNCHANGED LoaderIdle

\* the file has no more lines: parse() raises or returns the Song
EndOfFile ==
    /\ loader.pc = "reading"
    /\ loader' = LoaderEnd(loader)
    /\ song' = IF loader'.pc = "returned"
               THEN [sections |-> loader'.sections, order |-> loader'.order,
                     key |-> loader'.old_key]
               ELSE song
    /\ UNCHANGED LoaderIdle

NextLoader == ReadLine \/ EndOfFile

SpecLoader == InitLoader /\ [][NextLoader]_vars

-----------------------------------------------------------------------------
(* Properties of the loader, checked under SpecLoader *)

\* C19: every Song on which parse() returns has referential integrity: each
\* section name in the performance order is a key of the section map.
C19_LoadedSongHasIntegrity ==
    loader.pc = "returned" =>
        \A i \in 1..Len(song.order) : song.order[i][1] \in DOMAIN song.sections

-----------------------------------------------------------------------------
(* Further properties of a Section, checked under SpecSection *)

\* the run a..b of lines holds a Lyric line
RunHasLyric(lines, a, b) == \E k \in a..b : lines[k].kind = "lyric"

\* C28: every slide frame emitted by Section.generate_slides contains the
\* text of at least one Lyric line: a run made up only of MusicLines, like
\* the first run of [MusicLine, Break, Lyric], produces no frame.
C28_NoFrameWithoutLyric ==
    SlidesRendered =>
        LET lines == section.lines
        IN  /\ Len(section.slides.frames) =
                  Cardinality({r \in Runs(lines) : RunHasLyric(lines, r[1], r[2])})
            /\ (/\ Len(lines) = 3
                /\ lines[1].kind = "music"
                /\ lines[2].kind = "break"
                /\ lines[3].kind = "lyric") => Len(section.slides.frames) = 1

-----------------------------------------------------------------------------
(* Further properties of Song.generate_chordsheet, checked under SpecSong *)

\* the name ends in a space and a digit
EndsInSpaceDigit(name) ==
    /\ Len(name) >= 2
    /\ name[Len(name) - 1] = " "
    /\ IsDigit(name[Len(name)])

\* C27: for every section name accepted by wrapper resolution that ends in
\* a space and a digit d, the hyphenated forms Pre-chorus d and Pre-Chorus d
\* included, the section index used in its repeat reference is d.
C27_IndexIsTrailingDigit ==
    \A i \in 1..Len(call.blocks) :
        LET name == song.order[i][1]
        IN  (~FirstOccurrence(i) /\ EndsInSpaceDigit(name) /\ get_wrapper(name, TRUE).ok)
                => EndsWith(call.blocks[i], <<"{", name[Len(name)], "}">>)

-----------------------------------------------------------------------------
(* Specification of Line.parse.  line is a raw line as the loader reads it; *)
(* result is the Line that Line.parse returns for it, or the error that     *)
(* Lyric.parse raises.                                                      *)

MaxMeasures == 2

\* the text between two bars of a raw music line
MeasureTexts ==
    { <<" ", "G", " ">>, <<"G">>, <<" ">>, <<" ", "G", "/", "B", " ">>,
      <<" ", "a", "m", " ">>, <<" ", "G", " ", ":">> }

\* what follows the last bar: nothing, the newline, a repeat annotation
TerminalTexts ==
    { <<>>, <<"\n">>, <<" ", "(", "x", "2", ")">>, <<" ", "(", "x", "2", ")", "\n">> }

RECURSIVE Bars(_)
\* the text of the measures ms, a bar after each
Bars(ms) == IF ms = <<>> THEN <<>> ELSE Head(ms) \o <<"|">> \o Bars(Tail(ms))

MusicRawLines ==
    { open \o Bars(ms) \o t :
          open \in {<<"|">>, <<"|", ":">>},
          ms \in SeqsUpTo(MeasureTexts, MaxMeasures) \ {<<>>},
          t \in TerminalTexts }

RawLines == MusicRawLines \cup Lines

InitLine ==
    /\ notes = NoNotes
    /\ chord = <<>>
    /\ result = NoResult
    /\ line \in RawLines
    /\ lyric = NoLyric
    /\ scan = NoScan
    /\ song = NoSong
    /\ call = NoCall
    /\ OthersIdle

\* result = Line.parse(line)
ParseLine ==
    /\ result.state = "none"
    /\ LET r == LineParse(line)
       IN  result' = IF r.ok THEN [state |-> "ok", val |-> r.line]
                     ELSE [state |-> "error", val |-> <<>>]
    /\ UNCHANGED <<notes, chord, line, lyric, scan, song, call,
                 section, slides, threads, loader>>

NextLine == ParseLine

SpecLine == InitLine /\ [][NextLine]_vars

-----------------------------------------------------------------------------
(* Properties of Line.parse, checked under SpecLine *)

\* Line.parse returned a MusicLine
MusicParsed == result.state = "ok" /\ result.val.kind = "music"

\* the segments of the raw line between its bar characters
Segments == Split(line, "|")

\* C22: parsing a music line yields exactly one measure per non-empty,
\* non-terminal segment between bar characters: the leading empty segment,
\* empty segments and the terminal segment after the last bar (empty, a
\* newline, or a repeat annotation such as " (x2)") produce no measure and
\* no Chord.
C22_OneMeasurePerSegment ==
    MusicParsed =>
        Len(result.val.measures)
            = Cardinality({k \in 2..(Len(Segments) - 1) : Segments[k] # <<>>})

\* the Chords of a parsed Line
ChordsOf(l) ==
    {l.measures[i][j] : <<i, j>> \in
         {p \in (1..Len(l.measures)) \X (1..MaxChars) : p[2] <= Len(l.measures[p[1]])}}
      \cup {l.characters[i].chord : i \in {k \in 1..Len(l.characters) : l.characters[k].has_chord}}

\* C23: every Chord created by line parsing, from a music-line segment or
\* from a bracketed lyric annotation, has a non-empty symbol whose first
\* character is a letter A-G.
C23_ChordStartsWithNoteLetter ==
    result.state = "ok" =>
        \A x \in ChordsOf(result.val) : Len(x) >= 1 /\ x[1] \in NoteLetters

-----------------------------------------------------------------------------
(* Specification of the loop of Lyric.parse.  line is the argument; the     *)
(* local the loop scans is rstrip(line).  lyric holds the position i of the *)
(* scan (1-based) and the Characters collected so far.                      *)

InitTokens ==
    /\ notes = NoNotes
    /\ chord = <<>>
    /\ result = NoResult
    /\ line \in Lines
    /\ lyric = [state |-> "loop", characters |-> <<>>, i |-> 1]
    /\ scan = NoScan
    /\ song = NoSong
    /\ call = NoCall
    /\ OthersIdle

TokensIdle == <<notes, chord, result, line, scan, song, call,
               section, slides, threads, loader>>

\* one iteration of "while i < len(line)"
TokenIteration ==
    /\ lyric.state = "loop"
    /\ lyric.i <= Len(rstrip(line))
    /\ LET r == ParseStep(rstrip(line), lyric.i)
       IN  lyric' = IF r.ok
                    THEN [lyric EXCEPT !.characters = Append(@, r.token), !.i = r.i]
                    ELSE [lyric EXCEPT !.state = "error", !.characters = <<>>]
    /\ UNCHANGED TokensIdle

\* the loop ends: return Lyric(line_tokens)
TokenReturn ==
    /\ lyric.state = "loop"
    /\ lyric.i > Len(rstrip(line))
    /\ lyric' = [lyric EXCEPT !.state = "ok"]
    /\ UNCHANGED TokensIdle

NextTokens == TokenIteration \/ TokenReturn

SpecTokens == InitTokens /\ [][NextTokens]_vars

-----------------------------------------------------------------------------
(* Properties of the loop of Lyric.parse, checked under SpecTokens *)

\* the stepwise loop returns what Lyric.parse returns
TokensAsLyricParse ==
    lyric.state \in {"ok", "error"} =>
        /\ lyric.state = LyricParse(line).state
        /\ lyric.characters = LyricParse(line).characters

RECURSIVE WithoutAnnotations(_)
\* s with every bracketed annotation, from a "[" to the next "]", removed
WithoutAnnotations(s) ==
    IF s = <<>> THEN <<>>
    ELSE IF Head(s) = "[" /\ \E j \in 2..Len(s) : s[j] = "]"
    THEN LET close == CHOOSE j \in 2..Len(s) :
                          s[j] = "]" /\ \A k \in 2..(j - 1) : s[k] # "]"
         IN  WithoutAnnotations(SubSeq(s, close + 1, Len(s)))
    ELSE <<Head(s)>> \o WithoutAnnotations(Tail(s))

C26_Step ==
    /\ (lyric.state = "loop" /\ lyric'.state = "loop")
          => /\ lyric'.i > lyric.i
             /\ lyric'.i <= Len(rstrip(line)) + 1
    /\ lyric'.state = "ok"
          => /\ lyric'.i = Len(rstrip(line)) + 1
             /\ LyricStr(lyric'.characters) = rstrip(line)
             /\ CharsFrom(lyric'.characters, 1) = WithoutAnnotations(rstrip(line))

\* C26: Lyric parsing round-trips and always terminates: on every line on
\* which Lyric.parse succeeds the scan index strictly increases until the
\* end of the line, the string form of the parsed Lyric is the line with its
\* trailing whitespace stripped, and get_lyrics is that line with every
\* bracketed chord annotation, brackets included, removed.
C26_RoundTripAndProgress == [][C26_Step]_vars

C26_Witness ==
    /\ lyric.state = "ok"
    /\ line = <<"[", "G", "]", "a", "\n">>
    /\ lyric.characters = <<ChordCharacter(<<"a">>, <<"G">>)>>
    /\ lyric.i = 5

====
